---------------------------- MODULE Spec2Model ----------------------------
(***************************************************************************)
(* First-person renderer of example/render2Dto3D.py (class Renderer2Dto3D). *)
(*                                                                         *)
(* Lengths are integers in centimetres (0.1 m = 10, 50 m = 5000).  The      *)
(* floating-point values the code derives from them (camera coordinates,   *)
(* interpolation parameters, clipped end points) are exact rationals       *)
(* [num, den] in lowest terms, so equal numbers are equal values.  A        *)
(* heading theta is the pair (c, s) with cos(theta) = c / TrigDen and       *)
(* sin(theta) = s / TrigDen.  A distance np.sqrt(dx**2 + dy**2) is rounded  *)
(* down to the centimetre.  obstacle_trajectories is the dictionary in      *)
(* iteration order, a sequence of (id, traj) with id = int(key).            *)
(***************************************************************************)
EXTENDS Integers, Sequences, FiniteSets

VARIABLES
    episode_file,   \* the episode record as read from the input file (never written)
    episode_data,   \* self.episode_data, the record the renderer works on
    env,            \* what the collaborators do in this run: for each codec whether
                    \* its writer opens, the baseline writer, the file found afterwards
    also_save_gif,  \* argument save_gif of process / also_save_gif of the video routine
    pc,             \* position in process and render_first_person_video
    out,            \* the video writer held in out, or "None"
    frames_written, \* counter of frames handed to the writer
    all_frames_bgr, \* steps whose frame is kept for the GIF
    step_idx,       \* loop counter of the frame loop (next step to render)
    frame_step,     \* step index of the last frame returned, -1 before the first
    placed,         \* per trajectory key handled in that frame: the locals of its pass
                    \* (obs_x/obs_y, vertices_x/y, all_vertices_camera, visible_edges)
    collected,      \* obstacles_to_render of that frame before the sort (line 565)
    drawn,          \* the draw calls of that frame in call order (lines 570-575)
    shapes,         \* per draw call of that frame: the locals of the draw routine
    overlay,        \* what _draw_ui_info wrote on that frame
    layers,         \* what was painted on that frame, in the order of painting
    log,            \* calls made on the collaborators so far (writer, files, console)
    map_file,       \* value returned by generate_scene_map, "unset" before
    video_file,     \* value returned by render_first_person_video, "unset" before
    result,         \* record returned by process
    error,          \* exception that left render_first_person_video, or "none"
    call,           \* a single call of a projection routine: its arguments
    ret             \* and what it returned

\* the state of process and render_first_person_video
vars == <<episode_file, episode_data, env, also_save_gif, pc, out, frames_written,
          all_frames_bgr, step_idx, frame_step, placed, collected, drawn, shapes,
          overlay, layers, log, map_file, video_file, result, error, call, ret>>

\* what the video routine leaves alone while it only moves on
frame_vars == <<frame_step, placed, collected, drawn, shapes, overlay, layers>>

input_vars == <<episode_file, env, also_save_gif, call, ret>>

---------------------------------------------------------------------------
\* Bounds of the model.

\* longest robot trajectory and longest obstacle trajectory
MaxSteps == 2

\* most entries of initial_obstacles
MaxObstacles == 3

---------------------------------------------------------------------------
\* Program constants.

\* near-plane epsilon 0.1 m
NearEps == 10

\* view_distance = 50.0 m
ViewDistance == 5000

\* obs_info.get("radius", 0.5)
DefaultRadius == 50

\* common denominator of the tabulated cosines and sines
TrigDen == 5

\* image_width = 640, image_height = 480 (pixels)
ImageWidth == 640

ImageHeight == 480

\* camera_height = 1.2 m, obstacle_height = 1.5 m, wall_height = 2.5 m
CameraHeight == 120

ObstacleHeight == 150

WallHeight == 250

\* fov = 90.0 degrees and the pitch of 5 degrees downwards (pitch_angle = -5.0)
Fov == 90

PitchDown == 5

\* z <= 0.01 m: the guard of the two row projections
DepthEps == 1

\* a circle with screen_radius < 2 is not drawn
MinScreenRadius == 2

\* radius > 10 m: the obstacle is coloured as a wall
WallRadius == 1000

\* a video file below 1024 bytes draws a warning
MinFileSize == 1024

\* every 10th frame is saved as a still, every 2nd kept for the GIF
StillEvery == 10

GifEvery == 2

\* the ground grid: lines every 2 m, 30 cells to either side of the robot,
\* every 5th line a major line
GridSize == 200

GridRange == 30

MajorEvery == 5

---------------------------------------------------------------------------
\* Exact arithmetic standing for the float arithmetic of the code.

Abs(x) == IF x < 0 THEN -x ELSE x

RECURSIVE GCD(_, _)
GCD(a, b) == IF b = 0 THEN a ELSE GCD(b, a % b)

Rat(n, d) ==
    LET s == IF d < 0 THEN -1 ELSE 1
        g == GCD(Abs(n), Abs(d))
    IN  [num |-> (s * n) \div g, den |-> (s * d) \div g]

RatInt(n) == [num |-> n, den |-> 1]

RatAdd(a, b) == Rat(a.num * b.den + b.num * a.den, a.den * b.den)

RatSub(a, b) == Rat(a.num * b.den - b.num * a.den, a.den * b.den)

RatMul(a, b) == Rat(a.num * b.num, a.den * b.den)

RatDiv(a, b) == Rat(a.num * b.den, a.den * b.num)

RatNeg(a) == [num |-> -a.num, den |-> a.den]

RatLess(a, b) == a.num * b.den < b.num * a.den

RatLeq(a, b) == a.num * b.den <= b.num * a.den

RatAbs(a) == [num |-> Abs(a.num), den |-> a.den]

\* largest r with r * r <= n, by bisection on lo..hi
RECURSIVE SqrtSearch(_, _, _)
SqrtSearch(n, lo, hi) ==
    IF lo >= hi THEN lo
    ELSE LET mid == (lo + hi + 1) \div 2
         IN  IF mid * mid <= n THEN SqrtSearch(n, mid, hi)
             ELSE SqrtSearch(n, lo, mid - 1)

\* np.sqrt on a sum of squares of centimetres, rounded down (the search stops
\* at 400 m, beyond every distance of the model)
Sqrt(n) == SqrtSearch(n, 0, IF n < 40000 THEN n ELSE 40000)

\* np.cos and np.sin of an angle given as (c, s)
Cos(a) == Rat(a.c, TrigDen)

Sin(a) == Rat(a.s, TrigDen)

\* -robot_theta
NegAngle(a) == [c |-> a.c, s |-> -a.s]

\* tan(fov_rad / 2) for the default fov of 90 degrees
TanHalfFov == Rat(1, 1)

\* dict.get(key, default)
Get(d, key, default) == IF key \in DOMAIN d THEN d[key] ELSE default

\* Python list indexing: negative indices count from the end
PyIndex(list, i) == IF i >= 0 THEN list[i + 1] ELSE list[Len(list) + i + 1]

\* list[i] raises IndexError
PyIndexRaises(list, i) == i >= Len(list) \/ i < -Len(list)

Min(a, b) == IF a <= b THEN a ELSE b

Max(a, b) == IF a <= b THEN b ELSE a

RatMin(a, b) == IF RatLeq(a, b) THEN a ELSE b

RatMax(a, b) == IF RatLeq(a, b) THEN b ELSE a

\* int(x): the fraction is dropped, towards zero
Trunc(a) == IF a.num >= 0 THEN a.num \div a.den ELSE -((-a.num) \div a.den)

---------------------------------------------------------------------------
\* World to camera transform (lines 478-493, 539-545).

\* WorldToCamera without the sign change of line 488 (local_y positive to the left)
WorldToCameraLeftPositive(wx, wy, robot_pos) ==
    LET dx == wx - robot_pos.x
        dy == wy - robot_pos.y
        na == NegAngle(robot_pos.theta)
    IN  [local_x  |-> RatSub(RatMul(RatInt(dx), Cos(na)), RatMul(RatInt(dy), Sin(na))),
         local_y  |-> RatAdd(RatMul(RatInt(dx), Sin(na)), RatMul(RatInt(dy), Cos(na))),
         distance |-> RatInt(Sqrt(dx * dx + dy * dy))]

WorldToCamera(wx, wy, robot_pos) ==
    LET dx == wx - robot_pos.x
        dy == wy - robot_pos.y
        na == NegAngle(robot_pos.theta)
    IN  [local_x  |-> RatSub(RatMul(RatInt(dx), Cos(na)), RatMul(RatInt(dy), Sin(na))),
         local_y  |-> RatNeg(RatAdd(RatMul(RatInt(dx), Sin(na)), RatMul(RatInt(dy), Cos(na)))),
         distance |-> RatInt(Sqrt(dx * dx + dy * dy))]

\* Angles (lines 548-550).  An angle is the direction it points in, a non-zero
\* integer vector, and the number of full turns it lies away from its principal
\* value in (-pi, pi].  A heading of the episode is (c, s) and, when it is not
\* normalised, its number of turns.
Turns(theta) == IF "turns" \in DOMAIN theta THEN theta.turns ELSE 0

\* np.arctan2(y, x): the principal angle of (x, y); 0 for x = y = 0
Arctan2(y, x) == [dir |-> IF x = 0 /\ y = 0 THEN <<1, 0>> ELSE <<x, y>>, turns |-> 0]

\* where the principal angle of v lies: below 0, at 0, above 0 (up to pi)
Side(v) == IF v[2] < 0 THEN -1 ELSE IF v[2] = 0 /\ v[1] > 0 THEN 0 ELSE 1

\* the principal angle of u is smaller than that of w
PrincipalLess(u, w) ==
    \/ Side(u) < Side(w)
    \/ Side(u) = Side(w) /\ Side(u) # 0 /\ u[1] * w[2] - u[2] * w[1] > 0

Opposite(v) == <<-v[1], -v[2]>>

\* a - theta for an angle a and a heading theta: the direction of a turned back
\* by theta; the difference of the principal values lies in (-2 pi, 2 pi) and
\* is one turn away from its own principal value when it is above pi or at or
\* below -pi
AngleSub(a, theta) ==
    LET b     == <<theta.c, theta.s>>
        carry == IF Side(a.dir) = 1 /\ PrincipalLess(b, Opposite(a.dir)) THEN 1
                 ELSE IF Side(b) = 1 /\ ~PrincipalLess(Opposite(b), a.dir) THEN -1
                 ELSE 0
    IN  [dir   |-> <<a.dir[1] * theta.c + a.dir[2] * theta.s,
                     a.dir[2] * theta.c - a.dir[1] * theta.s>>,
         turns |-> a.turns - Turns(theta) + carry]

\* WrapAngle leaving the angle as it is
WrapAngleRaw(a) == a

\* line 550: np.arctan2(np.sin(a), np.cos(a))
WrapAngle(a) == Arctan2(a.dir[2], a.dir[1])

\* lines 548-550: relative_angle
RelativeAngle(dx, dy, robot_theta) == WrapAngle(AngleSub(Arctan2(dy, dx), robot_theta))

\* abs(relative_angle) < fov_rad / 2 (half the field of view is below 90
\* degrees; an angle one or more turns away from its principal value is at
\* least pi in absolute value)
RelativeAngleInFov(relative_angle) ==
    /\ relative_angle.turns = 0
    /\ relative_angle.dir[1] > 0
    /\ RatLess(RatInt(Abs(relative_angle.dir[2])),
               RatMul(RatInt(relative_angle.dir[1]), TanHalfFov))

---------------------------------------------------------------------------
\* Projection onto the screen (lines 405, 1038-1068).  Depths and lateral
\* offsets are rationals in centimetres, rows and columns are integers.

\* line 405: horizon_y = int(image_height / 2 - image_height * pitch_rad / fov_rad)
HorizonY(image_height) ==
    Trunc(RatAdd(Rat(image_height, 2), Rat(image_height * PitchDown, Fov)))

\* line 405 for a renderer constructed with the field of view fov (degrees)
HorizonYAt(image_height, fov) ==
    Trunc(RatAdd(Rat(image_height, 2), Rat(image_height * PitchDown, fov)))

\* range(max(0, horizon_y)) of line 408 and range(horizon_y, image_height) of
\* line 419, as the sequences of the loop variable
SkyRange(horizon_y) == [i \in 1..Max(0, horizon_y) |-> i - 1]

GroundRange(horizon_y, image_height) ==
    [i \in 1..Max(0, image_height - horizon_y) |-> horizon_y + i - 1]

\* frame[y, :] of lines 416 and 427: an index from -image_height to
\* image_height - 1 addresses a row (a negative one counts from the last row),
\* any other index raises IndexError
RowIndexValid(y, image_height) == -image_height <= y /\ y < image_height

RowIndexed(y, image_height) == IF y < 0 THEN y + image_height ELSE y

PaintRows(range, band) == [i \in 1..Len(range) |-> [y |-> range[i], band |-> band]]

\* the assignments the two loops make before the first index that raises
PaintedBefore(assignments, image_height) ==
    LET invalid == { i \in 1..Len(assignments) :
                       ~RowIndexValid(assignments[i].y, image_height) }
    IN  IF invalid = {} THEN assignments
        ELSE SubSeq(assignments, 1,
                    (CHOOSE i \in invalid : \A j \in invalid : i <= j) - 1)

\* lines 405-427: the sky loop, then the ground loop
BackgroundFill(image_height, fov) ==
    LET horizon_y   == HorizonYAt(image_height, fov)
        assignments == PaintRows(SkyRange(horizon_y), "sky")
                       \o PaintRows(GroundRange(horizon_y, image_height), "ground")
        painted     == PaintedBefore(assignments, image_height)
    IN  [horizon_y |-> horizon_y,
         painted   |-> painted,
         raised    |-> Len(painted) < Len(assignments)]

\* image_width / (2 * tan(fov_rad / 2)) and image_height / (2 * tan(fov_rad / 2))
FocalLength(size) == RatDiv(RatInt(size), RatMul(RatInt(2), TanHalfFov))

\* ProjectToScreenX with the lateral offset taken positive to the left
ProjectToScreenXMirrored(y, z, image_width) ==
    IF RatLeq(z, RatInt(0)) THEN image_width \div 2
    ELSE Trunc(RatSub(Rat(image_width, 2), RatMul(RatDiv(y, z), FocalLength(image_width))))

\* ProjectToScreenX whose guard returns column 0
ProjectToScreenXGuardZero(y, z, image_width) ==
    IF RatLeq(z, RatInt(0)) THEN 0
    ELSE Trunc(RatAdd(Rat(image_width, 2), RatMul(RatDiv(y, z), FocalLength(image_width))))

\* _project_to_screen_x(y, z)
ProjectToScreenX(y, z, image_width) ==
    IF RatLeq(z, RatInt(0)) THEN image_width \div 2
    ELSE Trunc(RatAdd(Rat(image_width, 2), RatMul(RatDiv(y, z), FocalLength(image_width))))

\* ProjectToScreenY without the min against image_height - 1
ProjectToScreenYUnclamped(z, horizon_y, image_height, camera_height) ==
    IF RatLeq(z, RatInt(DepthEps)) THEN horizon_y
    ELSE Trunc(RatAdd(RatInt(horizon_y),
                      RatDiv(RatMul(FocalLength(image_height), RatInt(camera_height)), z)))

\* _project_to_screen_y(z, horizon_y)
ProjectToScreenY(z, horizon_y, image_height, camera_height) ==
    IF RatLeq(z, RatInt(DepthEps)) THEN horizon_y
    ELSE Trunc(RatMin(RatInt(image_height - 1),
                      RatAdd(RatInt(horizon_y),
                             RatDiv(RatMul(FocalLength(image_height), RatInt(camera_height)), z))))

\* ProjectToScreenYWithHeight measuring the height downwards
ProjectToScreenYWithHeightDown(z, height, horizon_y, image_height, camera_height) ==
    IF RatLeq(z, RatInt(DepthEps)) THEN horizon_y
    ELSE Trunc(RatMax(RatInt(0),
               RatMin(RatInt(image_height - 1),
                      RatAdd(RatInt(horizon_y),
                             RatDiv(RatMul(FocalLength(image_height),
                                           RatInt(camera_height + height)), z)))))

\* _project_to_screen_y_with_height(z, height, horizon_y)
ProjectToScreenYWithHeight(z, height, horizon_y, image_height, camera_height) ==
    IF RatLeq(z, RatInt(DepthEps)) THEN horizon_y
    ELSE Trunc(RatMax(RatInt(0),
               RatMin(RatInt(image_height - 1),
                      RatAdd(RatInt(horizon_y),
                             RatDiv(RatMul(FocalLength(image_height),
                                           RatInt(camera_height - height)), z)))))

---------------------------------------------------------------------------
\* Obstacle placement (lines 444-472).

IsDynamic(obs_info) == Get(obs_info, "is_dynamic", FALSE)

\* ObstaclePosition holding the last recorded position past the end of traj
ObstaclePositionHoldLast(obs_info, traj, idx) ==
    IF IsDynamic(obs_info) /\ Len(traj) > 0
    THEN LET k == IF idx < Len(traj) THEN idx + 1 ELSE Len(traj)
         IN  <<traj[k].x, traj[k].y>>
    ELSE obs_info.initial_center

\* ObstaclePosition without the is_dynamic test
ObstaclePositionIgnoringFlag(obs_info, traj, idx) ==
    IF idx < Len(traj)
    THEN <<traj[idx + 1].x, traj[idx + 1].y>>
    ELSE obs_info.initial_center

\* lines 447-456: the obstacle's position at step_idx
ObstaclePosition(obs_info, traj, idx) ==
    IF IsDynamic(obs_info) /\ idx < Len(traj)
    THEN <<traj[idx + 1].x, traj[idx + 1].y>>
    ELSE obs_info.initial_center

\* line 461: the obstacle is drawn as a polygon
IsPolygon(obs_info) ==
    /\ "vertices" \in DOMAIN obs_info
    /\ Len(obs_info.vertices) = 2
    /\ Len(obs_info.vertices[1]) >= 3

\* vertices_x + dx on a fresh array
Shift(coords, d) == [i \in 1..Len(coords) |-> coords[i] + d]

\* lines 463-472: the vertex arrays used for the frame
PlacedVertices(obs_info, obs_pos) ==
    IF IsDynamic(obs_info)
    THEN <<Shift(obs_info.vertices[1], obs_pos[1] - obs_info.initial_center[1]),
           Shift(obs_info.vertices[2], obs_pos[2] - obs_info.initial_center[2])>>
    ELSE <<obs_info.vertices[1], obs_info.vertices[2]>>

\* lines 475-493: zip(vertices_x, vertices_y) through the camera transform
AllVerticesCamera(vs, robot_pos) ==
    [i \in 1..Min(Len(vs[1]), Len(vs[2])) |-> WorldToCamera(vs[1][i], vs[2][i], robot_pos)]

\* line 493: min over the vertices' distances
RECURSIVE MinDistance(_)
MinDistance(cams) ==
    IF Len(cams) = 1 THEN cams[1].distance.num
    ELSE Min(cams[1].distance.num, MinDistance(Tail(cams)))

---------------------------------------------------------------------------
\* Polygon clipper (lines 495-526).

Eps == RatInt(NearEps)

\* line 504
EdgeVisible(v1, v2) ==
    \/ RatLess(Eps, v1.local_x)
    \/ RatLess(Eps, v2.local_x)
    \/ (RatLess(v1.local_x, RatInt(0)) /\ RatLess(RatInt(0), v2.local_x))

\* ClipT measured from the far end point
ClipTFromFar(v1, v2) == RatDiv(RatSub(Eps, v2.local_x), RatSub(v2.local_x, v1.local_x))

\* lines 508, 517
ClipT(v1, v2) == RatDiv(RatSub(Eps, v1.local_x), RatSub(v2.local_x, v1.local_x))

\* lines 509-513, 518-522
ClipPoint(v1, v2) ==
    LET t == ClipT(v1, v2)
    IN  [local_x  |-> Eps,
         local_y  |-> RatAdd(v1.local_y, RatMul(t, RatSub(v2.local_y, v1.local_y))),
         distance |-> RatAdd(v1.distance, RatMul(t, RatSub(v2.distance, v1.distance)))]

\* lines 506-526: the edge appended for a visible ring edge
ClippedEdge(v1, v2) ==
    IF RatLeq(v1.local_x, Eps) /\ RatLess(Eps, v2.local_x)
    THEN <<ClipPoint(v1, v2), v2>>
    ELSE IF RatLess(Eps, v1.local_x) /\ RatLeq(v2.local_x, Eps)
    THEN <<v1, ClipPoint(v1, v2)>>
    ELSE <<v1, v2>>

\* NextVertex without the wrap to the first vertex
NextVertexNoWrap(cams, i) == cams[Min(i + 1, Len(cams))]

\* line 501: all_vertices_camera[(i + 1) % num_vertices], for the 1-based i
NextVertex(cams, i) == cams[(i % Len(cams)) + 1]

\* lines 499-526: ring edges i -> (i + 1) mod n, from edge i on
RECURSIVE VisibleEdgesFrom(_, _)
VisibleEdgesFrom(cams, i) ==
    IF i > Len(cams) THEN <<>>
    ELSE LET v1 == cams[i]
             v2 == NextVertex(cams, i)
         IN  (IF EdgeVisible(v1, v2) THEN <<ClippedEdge(v1, v2)>> ELSE <<>>)
             \o VisibleEdgesFrom(cams, i + 1)

VisibleEdges(cams) == VisibleEdgesFrom(cams, 1)

\* PolygonRendered without the test for an empty list
AlwaysRendered(visible_edges) == TRUE

\* line 529: the polygon enters obstacles_to_render
PolygonRendered(visible_edges) == Len(visible_edges) > 0

\* line 555: the circular obstacle enters obstacles_to_render
CircleVisible(cam, relative_angle) ==
    /\ RatLess(Eps, cam.local_x)
    /\ cam.distance.num < ViewDistance
    /\ RelativeAngleInFov(relative_angle)

---------------------------------------------------------------------------
\* One pass of the loop over obstacle_trajs.items() (lines 438-564).

\* line 441
KeySkipped(obs_id, initial_obstacles) == obs_id >= Len(initial_obstacles)

\* The locals of one pass: what was placed and what was appended.
ProcessObstacle(entry, robot_pos, initial_obstacles, idx) ==
    LET obs_info == PyIndex(initial_obstacles, entry.id)
        obs_pos  == ObstaclePosition(obs_info, entry.traj, idx)
        is_dyn   == IsDynamic(obs_info)
    IN  IF IsPolygon(obs_info)
        THEN LET vs    == PlacedVertices(obs_info, obs_pos)
                 cams  == AllVerticesCamera(vs, robot_pos)
                 edges == VisibleEdges(cams)
             IN  [placed |-> [key |-> entry.id, obs_info |-> obs_info, type |-> "polygon",
                              center |-> obs_pos, vertices |-> vs, camera |-> cams,
                              edges |-> edges],
                  render |-> IF PolygonRendered(edges)
                             THEN <<[type |-> "polygon", key |-> entry.id, edges |-> edges,
                                     obs_info |-> obs_info, distance |-> MinDistance(cams),
                                     is_dynamic |-> is_dyn]>>
                             ELSE <<>>]
        ELSE LET cam == WorldToCamera(obs_pos[1], obs_pos[2], robot_pos)
             IN  [placed |-> [key |-> entry.id, obs_info |-> obs_info, type |-> "circle",
                              center |-> obs_pos, vertices |-> <<>>, camera |-> <<cam>>,
                              edges |-> <<>>],
                  render |-> IF CircleVisible(cam, RelativeAngle(obs_pos[1] - robot_pos.x,
                                                                 obs_pos[2] - robot_pos.y,
                                                                 robot_pos.theta))
                             THEN <<[type |-> "circle", key |-> entry.id,
                                     local_x |-> cam.local_x, local_y |-> cam.local_y,
                                     distance |-> cam.distance.num,
                                     radius |-> Get(obs_info, "radius", DefaultRadius),
                                     obs_info |-> obs_info, is_dynamic |-> is_dyn]>>
                             ELSE <<>>]

\* The loop from entry k on; raised when initial_obstacles[obs_id_int] raises.
RECURSIVE CollectFrom(_, _, _, _, _)
CollectFrom(trajs, k, robot_pos, initial_obstacles, idx) ==
    IF k > Len(trajs) THEN [placed |-> <<>>, render |-> <<>>, raised |-> FALSE]
    ELSE IF KeySkipped(trajs[k].id, initial_obstacles)
    THEN CollectFrom(trajs, k + 1, robot_pos, initial_obstacles, idx)
    ELSE IF PyIndexRaises(initial_obstacles, trajs[k].id)
    THEN [placed |-> <<>>, render |-> <<>>, raised |-> TRUE]
    ELSE LET one  == ProcessObstacle(trajs[k], robot_pos, initial_obstacles, idx)
             rest == CollectFrom(trajs, k + 1, robot_pos, initial_obstacles, idx)
         IN  [placed |-> <<one.placed>> \o rest.placed,
              render |-> one.render \o rest.render,
              raised |-> rest.raised]

---------------------------------------------------------------------------
\* Depth sort (line 567): list.sort(key=distance, reverse=True) is stable.

\* InsertByDistance putting an obstacle before those of equal distance
RECURSIVE InsertBeforeTies(_, _)
InsertBeforeTies(sorted, e) ==
    IF sorted = <<>> THEN <<e>>
    ELSE IF Head(sorted).distance > e.distance
    THEN <<Head(sorted)>> \o InsertBeforeTies(Tail(sorted), e)
    ELSE <<e>> \o sorted

RECURSIVE InsertByDistance(_, _)
InsertByDistance(sorted, e) ==
    IF sorted = <<>> THEN <<e>>
    ELSE IF Head(sorted).distance >= e.distance
    THEN <<Head(sorted)>> \o InsertByDistance(Tail(sorted), e)
    ELSE <<e>> \o sorted

\* SortByDistance without reverse=True
RECURSIVE InsertAscending(_, _)
InsertAscending(sorted, e) ==
    IF sorted = <<>> THEN <<e>>
    ELSE IF Head(sorted).distance <= e.distance
    THEN <<Head(sorted)>> \o InsertAscending(Tail(sorted), e)
    ELSE <<e>> \o sorted

RECURSIVE SortByDistanceAscending(_)
SortByDistanceAscending(list) ==
    IF list = <<>> THEN <<>>
    ELSE InsertAscending(SortByDistanceAscending(SubSeq(list, 1, Len(list) - 1)), list[Len(list)])

RECURSIVE SortByDistance(_)
SortByDistance(list) ==
    IF list = <<>> THEN <<>>
    ELSE InsertByDistance(SortByDistance(SubSeq(list, 1, Len(list) - 1)), list[Len(list)])

---------------------------------------------------------------------------
\* Draw routines (lines 823-1036): the screen coordinates they compute.

\* CircleBaseColor taking an obstacle of exactly 10 m for a wall
CircleBaseColorFromTen(radius, is_dynamic) ==
    IF radius >= WallRadius
    THEN (IF is_dynamic THEN <<100, 150, 255>> ELSE <<200, 200, 210>>)
    ELSE (IF is_dynamic THEN <<0, 180, 255>> ELSE <<60, 120, 255>>)

\* lines 944-953 of _draw_circle_obstacle: base_color, as (B, G, R)
CircleBaseColor(radius, is_dynamic) ==
    IF radius > WallRadius
    THEN (IF is_dynamic THEN <<100, 150, 255>> ELSE <<200, 200, 210>>)
    ELSE (IF is_dynamic THEN <<0, 180, 255>> ELSE <<60, 120, 255>>)

\* lines 829-845 of _draw_polygon_obstacle: obstacle_color, as (B, G, R)
PolygonBaseColor(radius, is_dynamic) ==
    IF radius > WallRadius
    THEN (IF is_dynamic THEN <<100, 150, 255>> ELSE <<200, 200, 210>>)
    ELSE (IF is_dynamic THEN <<0, 180, 255>> ELSE <<60, 120, 255>>)

\* ScreenRadius multiplying by the depth instead of dividing by it
ScreenRadiusInverted(radius, local_x, image_width) ==
    Trunc(RatDiv(RatMul(RatInt(radius), local_x), RatMul(RatInt(2 * image_width), TanHalfFov)))

\* line 934: screen_radius
ScreenRadius(radius, local_x, image_width) ==
    Trunc(RatDiv(RatInt(radius * image_width), RatMul(RatMul(RatInt(2), local_x), TanHalfFov)))

\* _draw_circle_obstacle (lines 920-1036)
DrawCircleObstacle(obs, horizon_y) ==
    LET screen_radius == ScreenRadius(obs.radius, obs.local_x, ImageWidth)
    IN  [type            |-> "circle",
         screen_x        |-> ProjectToScreenX(obs.local_y, obs.local_x, ImageWidth),
         screen_y_bottom |-> ProjectToScreenY(obs.local_x, horizon_y, ImageHeight, CameraHeight),
         screen_y_top    |-> ProjectToScreenYWithHeight(obs.local_x, ObstacleHeight, horizon_y,
                                                        ImageHeight, CameraHeight),
         screen_radius   |-> screen_radius,
         painted         |-> screen_radius >= MinScreenRadius,
         base_color      |-> CircleBaseColor(obs.radius, obs.is_dynamic)]

\* lines 848-865 of _draw_polygon_obstacle: the wall face of one edge
WallFace(edge, wall_height, horizon_y) ==
    LET v1 == edge[1]
        v2 == edge[2]
        x1 == ProjectToScreenX(v1.local_y, v1.local_x, ImageWidth)
        x2 == ProjectToScreenX(v2.local_y, v2.local_x, ImageWidth)
    IN  [x1 |-> x1, x2 |-> x2,
         y1_bottom |-> ProjectToScreenY(v1.local_x, horizon_y, ImageHeight, CameraHeight),
         y2_bottom |-> ProjectToScreenY(v2.local_x, horizon_y, ImageHeight, CameraHeight),
         y1_top |-> ProjectToScreenYWithHeight(v1.local_x, wall_height, horizon_y,
                                               ImageHeight, CameraHeight),
         y2_top |-> ProjectToScreenYWithHeight(v2.local_x, wall_height, horizon_y,
                                               ImageHeight, CameraHeight),
         painted |-> ~((x1 < 0 /\ x2 < 0) \/ (x1 >= ImageWidth /\ x2 >= ImageWidth))]

\* _draw_polygon_obstacle (lines 823-918)
DrawPolygonObstacle(edges, obs_info, horizon_y, is_dynamic) ==
    LET radius == Get(obs_info, "radius", DefaultRadius)
        wall_height == IF radius > WallRadius THEN WallHeight ELSE ObstacleHeight
    IN  [type       |-> "polygon",
         faces      |-> [i \in 1..Len(edges) |-> WallFace(edges[i], wall_height, horizon_y)],
         base_color |-> PolygonBaseColor(radius, is_dynamic)]

\* lines 570-575: one draw call per obstacle of the sorted list
DrawObstacles(sorted, horizon_y) ==
    [i \in 1..Len(sorted) |->
        IF sorted[i].type = "polygon"
        THEN DrawPolygonObstacle(sorted[i].edges, sorted[i].obs_info, horizon_y,
                                 sorted[i].is_dynamic)
        ELSE DrawCircleObstacle(sorted[i], horizon_y)]

\* _draw_ui_info (lines 1103-1123): the texts, read from self.episode_data
DrawUiInfo(data, idx) ==
    LET robot_traj == Get(data, "robot_trajectory", <<>>)
        actions    == Get(data, "actions", <<>>)
    IN  [frame  |-> idx + 1,
         total  |-> Len(robot_traj),
         pos    |-> IF idx < Len(robot_traj)
                    THEN <<robot_traj[idx + 1].x, robot_traj[idx + 1].y, robot_traj[idx + 1].theta>>
                    ELSE <<0, 0, [c |-> TrigDen, s |-> 0]>>,
         action |-> IF idx < Len(actions)
                    THEN <<actions[idx + 1].linear, actions[idx + 1].angular>>
                    ELSE <<0, 0>>]

\* no frame yet
NoOverlay == [frame |-> 0, total |-> 0, pos |-> <<0, 0, [c |-> TrigDen, s |-> 0]>>, action |-> <<0, 0>>]

\* _draw_ground_grid (lines 582-694).  A line of the grid is at the world
\* coordinate grid index * grid_size; its samples are the points of the line at
\* the grid indices of the other axis.

\* RobotGrid rounding towards zero
RobotGridTruncated(coord) == Trunc(Rat(coord, GridSize))

\* lines 603-604: int(np.floor(robot / grid_size))
RobotGrid(coord) == coord \div GridSize

\* lines 609, 614, 653, 658: range(robot_grid - grid_range, robot_grid + grid_range + 1)
GridIndices(coord) ==
    [k \in 1..(2 * GridRange + 1) |-> RobotGrid(coord) - GridRange + k - 1]

\* lines 636, 680: is_major
IsMajor(grid_idx) == grid_idx % MajorEvery = 0

\* a camera coordinate times TrigDen, an integer
Scaled(r) == RatMul(RatInt(TrigDen), r).num

\* lines 618-629, 662-673: the sample at the world point (world_x, world_y), the
\* k-th of its line: the point appended for it, or nothing
GridSample(world_x, world_y, k, robot_pos, horizon_y) ==
    LET cam      == WorldToCamera(world_x, world_y, robot_pos)
        screen_x == ProjectToScreenX(cam.local_y, cam.local_x, ImageWidth)
        screen_y == ProjectToScreenY(cam.local_x, horizon_y, ImageHeight, CameraHeight)
    IN  IF /\ RatLess(Eps, cam.local_x)
           /\ RatLess(cam.local_x, RatInt(ViewDistance))
           /\ cam.distance.num < ViewDistance
           /\ RelativeAngleInFov(Arctan2(Scaled(cam.local_y), Scaled(cam.local_x)))
           /\ 0 <= screen_x /\ screen_x < ImageWidth
           /\ horizon_y <= screen_y /\ screen_y < ImageHeight
        THEN <<[screen_x |-> screen_x, screen_y |-> screen_y, local_x |-> cam.local_x,
                sample |-> k]>>
        ELSE <<>>

\* the world point of sample k on the line grid_idx of the axis: a line
\* "along_x" has world_y fixed (608-629), a line "along_y" world_x (652-673)
SamplePoint(axis, grid_idx, k, robot_pos) ==
    IF axis = "along_x"
    THEN <<GridIndices(robot_pos.x)[k] * GridSize, grid_idx * GridSize>>
    ELSE <<grid_idx * GridSize, GridIndices(robot_pos.y)[k] * GridSize>>

\* points of the line from sample k on
RECURSIVE GridPointsFrom(_, _, _, _, _)
GridPointsFrom(axis, grid_idx, k, robot_pos, horizon_y) ==
    IF k > 2 * GridRange + 1 THEN <<>>
    ELSE GridSample(SamplePoint(axis, grid_idx, k, robot_pos)[1],
                    SamplePoint(axis, grid_idx, k, robot_pos)[2], k, robot_pos, horizon_y)
         \o GridPointsFrom(axis, grid_idx, k + 1, robot_pos, horizon_y)

\* lines 633, 677: sorted(points, key=lambda p: p[2]), a stable sort
RECURSIVE InsertByDepth(_, _)
InsertByDepth(sorted, p) ==
    IF sorted = <<>> THEN <<p>>
    ELSE IF RatLeq(Head(sorted).local_x, p.local_x)
    THEN <<Head(sorted)>> \o InsertByDepth(Tail(sorted), p)
    ELSE <<p>> \o sorted

RECURSIVE SortByDepth(_)
SortByDepth(points) ==
    IF points = <<>> THEN <<>>
    ELSE InsertByDepth(SortByDepth(SubSeq(points, 1, Len(points) - 1)), points[Len(points)])

\* GridSegments joining every point to the next but one
GridSegmentsSkipping(points) ==
    [i \in 1..(Len(points) - 2) |-> <<points[i], points[i + 2]>>]

\* lines 641-650, 685-694: a segment from every point to the next
GridSegments(points) ==
    [i \in 1..(Len(points) - 1) |-> <<points[i], points[i + 1]>>]

\* lines 632-650, 676-694: the line is drawn from its sorted points
GridLineDrawn(axis, grid_idx, sorted) ==
    [axis      |-> axis,
     grid_idx  |-> grid_idx,
     world     |-> grid_idx * GridSize,
     points    |-> sorted,
     is_major  |-> IsMajor(grid_idx),
     thickness |-> IF IsMajor(grid_idx) THEN 2 ELSE 1,
     segments  |-> IF Len(sorted) >= 2 THEN GridSegments(sorted) ELSE <<>>]

\* one pass of the loop of line 609 or 653: the line at position n of its range
DrawGridLine(axis, n, robot_pos, horizon_y) ==
    GridLineDrawn(axis, GridIndices(IF axis = "along_x" THEN robot_pos.y ELSE robot_pos.x)[n],
                  SortByDepth(GridPointsFrom(
                      axis, GridIndices(IF axis = "along_x" THEN robot_pos.y ELSE robot_pos.x)[n],
                      1, robot_pos, horizon_y)))

\* one thing painted on the frame: which layer, and for an obstacle its place
\* in the sorted list
Layer(name, index) == [layer |-> name, index |-> index]

\* lines 794-803 of _draw_world_landmarks: the sun, at 45 degrees in the world,
\* is within the field of view
SunInView(robot_theta) == RelativeAngleInFov(WrapAngle(AngleSub(Arctan2(1, 1), robot_theta)))

\* FrameLayers with the texts painted before the obstacles
FrameLayersUiFirst(sorted, robot_pos) ==
    <<Layer("background", 0), Layer("grid", 0), Layer("landmarks", 0)>>
    \o (IF SunInView(robot_pos.theta) THEN <<Layer("sun", 0)>> ELSE <<>>)
    \o <<Layer("ui_text", 0), Layer("compass", 0)>>
    \o [i \in 1..Len(sorted) |-> Layer("obstacle", i)]

\* lines 389-578: sky and ground (406-427), _draw_ground_grid (430),
\* _draw_world_landmarks with the sun at its end (433), the obstacles in list
\* order (570-575), _draw_ui_info (578): the text box and then the compass
\* (lines 1124-1146)
FrameLayers(sorted, robot_pos) ==
    <<Layer("background", 0), Layer("grid", 0), Layer("landmarks", 0)>>
    \o (IF SunInView(robot_pos.theta) THEN <<Layer("sun", 0)>> ELSE <<>>)
    \o [i \in 1..Len(sorted) |-> Layer("obstacle", i)]
    \o <<Layer("ui_text", 0), Layer("compass", 0)>>

\* lines 567-575: the collected obstacles, sorted, are drawn
FrameDrawn(c, sorted) ==
    [placed |-> c.placed, collected |-> c.render,
     drawn |-> sorted, shapes |-> DrawObstacles(sorted, HorizonY(ImageHeight)),
     raised |-> c.raised]

FrameCollected(c) == FrameDrawn(c, SortByDistance(c.render))

\* _render_first_person_frame: the obstacle part of one frame
RenderFirstPersonFrame(robot_pos, obstacle_trajs, initial_obstacles, idx) ==
    FrameCollected(CollectFrom(obstacle_trajs, 1, robot_pos, initial_obstacles, idx))

\* EpisodeAfterFrame for a frame that shifts the stored vertex lists in place
EpisodeAfterFrameInPlace(data, frame) ==
    LET n == Len(data.initial_obstacles)
        At(i) == { k \in 1..Len(frame.placed) :
                     /\ frame.placed[k].type = "polygon"
                     /\ (IF frame.placed[k].key >= 0 THEN frame.placed[k].key + 1
                         ELSE n + frame.placed[k].key + 1) = i }
    IN  [data EXCEPT !.initial_obstacles =
            [i \in 1..n |->
                IF At(i) = {} THEN data.initial_obstacles[i]
                ELSE [data.initial_obstacles[i] EXCEPT
                        !.vertices = frame.placed[CHOOSE k \in At(i) : TRUE].vertices]]]

\* The frame works on fresh arrays (np.array, vertices_x + dx) and writes
\* nothing back into the episode record.
EpisodeAfterFrame(data, frame) == data

---------------------------------------------------------------------------
\* Episode records the model is run on.

Pos(x, y) == [x |-> x, y |-> y]

Headings == { [c |-> 5, s |-> 0], [c |-> -5, s |-> 0], [c |-> 3, s |-> 4] }

\* a robot starting at the origin and driving 1 m per step along its heading
RobotTrajectory(h, n) ==
    [k \in 1..n |-> [x |-> ((k - 1) * 100 * h.c) \div TrigDen,
                     y |-> ((k - 1) * 100 * h.s) \div TrigDen, theta |-> h]]

RobotTrajectories == { RobotTrajectory(h, n) : h \in Headings, n \in 0..MaxSteps }

\* three circular obstacles 5 m, 15 m and 10 m from the origin (is_dynamic
\* absent, false, true), a dynamic triangle around the origin and a static
\* quadrilateral
ObstacleLibrary ==
    << [initial_center |-> <<500, 0>>, radius |-> 50],
       [initial_center |-> <<1500, 0>>, radius |-> 50, is_dynamic |-> FALSE],
       [initial_center |-> <<1000, 0>>, radius |-> 50, is_dynamic |-> TRUE],
       [initial_center |-> <<0, 0>>, radius |-> 300, is_dynamic |-> TRUE,
        vertices |-> << <<-100, 300, 5>>, <<0, 100, -100>> >>],
       [initial_center |-> <<100, 0>>, radius |-> 300,
        vertices |-> << <<5, 300, 300, -100>>, <<-100, -100, 100, 0>> >> ] >>

\* the library obstacles with index in S, in library order
RECURSIVE SubList(_, _)
SubList(S, i) ==
    IF i > Len(ObstacleLibrary) THEN <<>>
    ELSE (IF i \in S THEN <<ObstacleLibrary[i]>> ELSE <<>>) \o SubList(S, i + 1)

ObstacleLists ==
    { SubList(S, 1) : S \in { T \in SUBSET (1..Len(ObstacleLibrary)) : Cardinality(T) <= MaxObstacles } }

RecordedPositions == { Pos(200, 300), Pos(400, 300) }

\* an obstacle recorded at one place for len steps
ObstacleTrajectories == { [k \in 1..len |-> p] : p \in RecordedPositions, len \in 0..MaxSteps }

\* obstacle_trajectories in file order: every obstacle keyed by its index
FullTrajs(n, traj) == [i \in 1..n |-> [id |-> i - 1, traj |-> traj]]

Reverse(seq) == [i \in 1..Len(seq) |-> seq[Len(seq) + 1 - i]]

\* seq with the entry of index j left out
RECURSIVE Without(_, _)
Without(seq, j) ==
    IF seq = <<>> THEN <<>>
    ELSE IF j = 1 THEN Tail(seq)
    ELSE <<Head(seq)>> \o Without(Tail(seq), j - 1)

\* the complete dictionary in either key order, one obstacle without an entry,
\* one key past the end of initial_obstacles, one negative key
TrajDicts(n, traj) ==
    { FullTrajs(n, traj), Reverse(FullTrajs(n, traj)) }
    \cup { Without(FullTrajs(n, traj), j) : j \in 1..n }
    \cup { FullTrajs(n, traj) \o <<[id |-> n, traj |-> traj]>> }
    \cup { <<[id |-> k, traj |-> traj]>> \o FullTrajs(n, traj) : k \in {-1, -(n + 1)} }

\* one action per step, as the recorder appends them
Actions(n) == [k \in 1..n |-> [linear |-> 100, angular |-> 0]]

Episodes ==
    UNION { { [robot_trajectory |-> rt, initial_obstacles |-> obs, obstacle_trajectories |-> td,
               actions |-> Actions(Len(rt))]
              : td \in TrajDicts(Len(obs), tr) }
            : <<rt, obs, tr>> \in RobotTrajectories \X ObstacleLists \X ObstacleTrajectories }

\* length of the episodes with one obstacle straight ahead
EndToEndSteps == 5

\* a robot starting d_0 behind the origin on the line of its heading and moving
\* v per step along it (v < 0: driving in reverse)
LineTrajectory(h, d_0, v, n) ==
    [k \in 1..n |-> [x |-> ((v * (k - 1) - d_0) * h.c) \div TrigDen,
                     y |-> ((v * (k - 1) - d_0) * h.s) \div TrigDen, theta |-> h]]

\* one static circular obstacle at the origin, straight ahead of a robot that
\* approaches it, stands still, or backs away from it by 1 m or 0.1 m per step
EndToEndEpisodes ==
    { [robot_trajectory |-> LineTrajectory(h, d_0, v, EndToEndSteps),
       initial_obstacles |-> <<[initial_center |-> <<0, 0>>, radius |-> 50]>>,
       obstacle_trajectories |-> FullTrajs(1, <<>>),
       actions |-> Actions(EndToEndSteps)]
      : <<h, d_0, v>> \in Headings \X {1000, 4100} \X {100, 0, -10, -100} }

\* headings along the axes and along 3-4-5 directions, one in each quadrant
BearingHeadings ==
    { [c |-> 5, s |-> 0], [c |-> 0, s |-> 5], [c |-> -5, s |-> 0], [c |-> 0, s |-> -5],
      [c |-> 3, s |-> 4], [c |-> -4, s |-> 3], [c |-> -4, s |-> -3], [c |-> 3, s |-> -4] }

\* where the circular obstacles stand, as (ahead, to the right) of the robot in
\* centimetres: nearer than, at and beyond the near limit, at and within the
\* view distance, outside, on and inside the edge of the field of view on
\* either side, behind and beside the robot, and on the robot
BearingPoints ==
    << <<5, 0>>, <<10, 0>>, <<15, 0>>, <<2000, 0>>, <<4995, 0>>, <<5000, 0>>, <<6000, 0>>,
       <<300, 400>>, <<300, 300>>, <<400, 300>>, <<740, 680>>, <<740, -680>>, <<300, -400>>,
       <<-1000, 0>>, <<-1000, 100>>, <<0, 1000>>, <<0, 0>> >>

\* a robot standing at (1 m, -2 m) with heading h, recorded turns full turns
\* away from its principal value, and a circular obstacle at every point
BearingEpisode(h, turns) ==
    [robot_trajectory |-> <<[x |-> 100, y |-> -200,
                             theta |-> [c |-> h.c, s |-> h.s, turns |-> turns]]>>,
     initial_obstacles |->
        [i \in 1..Len(BearingPoints) |->
            [initial_center |->
                <<100 + (BearingPoints[i][1] * h.c + BearingPoints[i][2] * h.s) \div TrigDen,
                  -200 + (BearingPoints[i][1] * h.s - BearingPoints[i][2] * h.c) \div TrigDen>>,
             radius |-> 50]],
     obstacle_trajectories |-> FullTrajs(Len(BearingPoints), <<>>),
     actions |-> Actions(1)]

BearingEpisodes == { BearingEpisode(h, turns) : h \in BearingHeadings, turns \in {-1, 0, 1} }

\* vertex rings as (ahead, to the right) of the robot in centimetres: a
\* triangle and a quadrilateral that reach behind the robot between their last
\* and first vertex, a pentagon ahead of it, a triangle behind it, and a
\* triangle with a vertex on the near plane
Rings ==
    << << <<300, -100>>, <<-200, 0>>, <<400, 100>> >>,
       << <<200, -100>>, <<-100, -100>>, <<-100, 100>>, <<300, 100>> >>,
       << <<100, -50>>, <<200, -50>>, <<200, 50>>, <<100, 50>>, <<50, 0>> >>,
       << <<-100, -50>>, <<-300, 0>>, <<-100, 50>> >>,
       << <<10, 0>>, <<300, 100>>, <<300, -100>> >> >>

\* a robot standing at the origin with heading h and a static polygon for
\* every ring
RingEpisode(h) ==
    [robot_trajectory |-> <<[x |-> 0, y |-> 0, theta |-> h]>>,
     initial_obstacles |->
        [i \in 1..Len(Rings) |->
            [initial_center |-> <<0, 0>>, radius |-> 300,
             vertices |->
                << [j \in 1..Len(Rings[i]) |->
                       (Rings[i][j][1] * h.c + Rings[i][j][2] * h.s) \div TrigDen],
                   [j \in 1..Len(Rings[i]) |->
                       (Rings[i][j][1] * h.s - Rings[i][j][2] * h.c) \div TrigDen] >>]],
     obstacle_trajectories |-> FullTrajs(Len(Rings), <<>>),
     actions |-> Actions(1)]

RingEpisodes == { RingEpisode(h) : h \in BearingHeadings }

\* the obstacles of the episode of colours: for a radius that is absent, 10 m
\* or 10.1 m, dynamic or not, a circle and a triangle, each 1 m further ahead
\* than the one before
ColourRadii == <<0, 1000, 1010>>

ColourObstacle(i) ==
    LET r      == ColourRadii[((i - 1) % 3) + 1]
        dyn    == ((i - 1) \div 3) % 2 = 1
        cx     == 2000 + 100 * i
        circle == [initial_center |-> <<cx, 0>>, is_dynamic |-> dyn]
        sized  == IF r = 0 THEN circle
                  ELSE [initial_center |-> <<cx, 0>>, is_dynamic |-> dyn, radius |-> r]
    IN  IF i <= 6 THEN sized
        ELSE IF r = 0
        THEN [initial_center |-> <<cx, 0>>, is_dynamic |-> dyn,
              vertices |-> << <<cx - 50, cx + 50, cx>>, <<-50, -50, 50>> >>]
        ELSE [initial_center |-> <<cx, 0>>, is_dynamic |-> dyn, radius |-> r,
              vertices |-> << <<cx - 50, cx + 50, cx>>, <<-50, -50, 50>> >>]

\* a robot driving 1 m per step along the x axis towards the twelve obstacles;
\* the dynamic ones are recorded 1 m further to the left at every step
ColourEpisode ==
    [robot_trajectory |-> RobotTrajectory([c |-> TrigDen, s |-> 0], 2),
     initial_obstacles |-> [i \in 1..12 |-> ColourObstacle(i)],
     obstacle_trajectories |->
        [i \in 1..12 |-> [id |-> i - 1,
                          traj |-> [k \in 1..2 |-> Pos(2000 + 100 * i, 100 * k)]]],
     actions |-> Actions(2)]

\* values of the vertices field that are not two coordinate lists of three or
\* more points each: no list, one list, three lists, two lists of two points,
\* a short list before a long one, a long list before a short one; the last
\* value is a triangle
VerticesForms ==
    << <<>>,
       << <<400, 600, 600>> >>,
       << <<400, 600, 600>>, <<-100, -100, 100>>, <<0, 0, 0>> >>,
       << <<400, 600>>, <<-100, 100>> >>,
       << <<400, 600>>, <<-100, 100, 0>> >>,
       << <<400, 600, 600>>, <<-100, 100>> >>,
       << <<400, 600, 600>>, <<-100, -100, 100>> >> >>

\* obstacle i of the episode of vertices: without a vertices field (i = 1, 9)
\* or with one of the forms; 1 .. 8 static without a radius, 9 .. 16 dynamic
\* with a radius of 0.8 m; each centred 1 m further ahead than the one before
VerticesObstacle(i) ==
    LET form    == (i - 1) % (Len(VerticesForms) + 1)
        dyn     == i > Len(VerticesForms) + 1
        cx      == 500 + 100 * i
    IN  IF form = 0
        THEN (IF dyn THEN [initial_center |-> <<cx, 0>>, is_dynamic |-> TRUE, radius |-> 80]
              ELSE [initial_center |-> <<cx, 0>>])
        ELSE (IF dyn THEN [initial_center |-> <<cx, 0>>, is_dynamic |-> TRUE, radius |-> 80,
                           vertices |-> VerticesForms[form]]
              ELSE [initial_center |-> <<cx, 0>>, vertices |-> VerticesForms[form]])

VerticesEpisode ==
    [robot_trajectory |-> RobotTrajectory([c |-> TrigDen, s |-> 0], 2),
     initial_obstacles |-> [i \in 1..(2 * (Len(VerticesForms) + 1)) |-> VerticesObstacle(i)],
     obstacle_trajectories |->
        [i \in 1..(2 * (Len(VerticesForms) + 1)) |->
            [id |-> i - 1, traj |-> [k \in 1..2 |-> Pos(500 + 100 * i, 100 * k)]]],
     actions |-> Actions(2)]

\* episodes without obstacles, for the runs that vary the collaborators; one
\* of them has no robot_trajectory key at all
VideoEpisodes ==
    { [robot_trajectory |-> RobotTrajectory([c |-> TrigDen, s |-> 0], n),
       initial_obstacles |-> <<>>, obstacle_trajectories |-> <<>>, actions |-> Actions(n)]
      : n \in 0..MaxSteps }
    \cup { [initial_obstacles |-> <<>>, obstacle_trajectories |-> <<>>, actions |-> <<>>] }

---------------------------------------------------------------------------
\* The collaborators: cv2.VideoWriter, the file system, the console.

\* codecs_to_try (lines 256-261)
Codecs == <<"avc1", "H264", "X264", "mp4v">>

\* what an attempt to create a writer does: the writer reports opened, reports
\* not opened, or the call raises
Outcomes == {"opened", "closed", "raised"}

\* the video file after release: whether it exists and its size in bytes
FileStates ==
    { [exists |-> FALSE, size |-> 0] }
    \cup { [exists |-> TRUE, size |-> n] : n \in {0, MinFileSize - 1, MinFileSize, 4 * MinFileSize} }

Envs ==
    [codecs : [1..Len(Codecs) -> Outcomes], baseline : {"opened", "closed"}, file : FileStates]

\* the first codec opens and a video of 4 KB is found
NominalEnv ==
    [codecs |-> [i \in 1..Len(Codecs) |-> "opened"], baseline |-> "opened",
     file |-> [exists |-> TRUE, size |-> 4 * MinFileSize]]

\* the environments in which no writer opens, in the codec loop or after it
NoEncoderEnvs ==
    { e \in Envs : /\ \A i \in 1..Len(Codecs) : e.codecs[i] # "opened"
                   /\ e.baseline = "closed"
                   /\ e.file.size \in {0, 4 * MinFileSize} }

\* an episode long enough for three stills: steps 0, 10 and 20
LongSteps == 21

LongEpisode ==
    [robot_trajectory |-> RobotTrajectory([c |-> TrigDen, s |-> 0], LongSteps),
     initial_obstacles |-> <<>>, obstacle_trajectories |-> <<>>, actions |-> Actions(LongSteps)]

Runs ==
    (Episodes \X {NominalEnv} \X {FALSE})
    \cup (EndToEndEpisodes \X {NominalEnv} \X BOOLEAN)
    \cup (BearingEpisodes \X {NominalEnv} \X {FALSE})
    \cup (RingEpisodes \X {NominalEnv} \X {FALSE})
    \cup ({ColourEpisode} \X {NominalEnv} \X {FALSE})
    \cup ({VerticesEpisode} \X {NominalEnv} \X {FALSE})
    \cup (VideoEpisodes \X Envs \X BOOLEAN)
    \cup ({LongEpisode} \X (NoEncoderEnvs \cup {NominalEnv}) \X {FALSE})

\* a call on a collaborator: what is called, on which codec, file or message,
\* and for which step (-1 when the call belongs to no step)
Event(ev, name, step) == [ev |-> ev, name |-> name, step |-> step]

Call(ev, name) == Event(ev, name, -1)

\* a writer object
Writer(codec, opened) == [codec |-> codec, opened |-> opened]

\* out = None
NoWriter == Writer("None", FALSE)

\* out and out.isOpened()
IsOpened(writer) == writer # NoWriter /\ writer.opened

\* TryCodecs going on to the next codec after a writer has opened
RECURSIVE TryCodecsNoBreak(_, _)
TryCodecsNoBreak(codecs, i) ==
    IF i > Len(Codecs) THEN [out |-> NoWriter, log |-> <<>>]
    ELSE LET rest == TryCodecsNoBreak(codecs, i + 1)
             made == <<Call("VideoWriter", Codecs[i])>>
         IN  IF codecs[i] = "opened"
             THEN [out |-> IF rest.out = NoWriter THEN Writer(Codecs[i], TRUE) ELSE rest.out,
                   log |-> made \o <<Call("print", "codec")>> \o rest.log]
             ELSE IF codecs[i] = "closed"
             THEN [out |-> rest.out, log |-> made \o <<Call("release", Codecs[i])>> \o rest.log]
             ELSE [out |-> rest.out, log |-> made \o rest.log]

\* lines 263-285: the codecs from the i-th on, until a writer opens.  A writer
\* that does not open is released and out set back to None; when the call
\* raises, out is still None and nothing is released.
RECURSIVE TryCodecs(_, _)
TryCodecs(codecs, i) ==
    IF i > Len(Codecs) THEN [out |-> NoWriter, log |-> <<>>]
    ELSE LET rest == TryCodecs(codecs, i + 1)
             made == <<Call("VideoWriter", Codecs[i])>>
         IN  IF codecs[i] = "opened"
             THEN [out |-> Writer(Codecs[i], TRUE), log |-> made \o <<Call("print", "codec")>>]
             ELSE IF codecs[i] = "closed"
             THEN [out |-> rest.out, log |-> made \o <<Call("release", Codecs[i])>> \o rest.log]
             ELSE [out |-> rest.out, log |-> made \o rest.log]

\* lines 263-296: the codec loop, then the baseline writer when none opened
OpenWriter(e) ==
    LET tried == TryCodecs(e.codecs, 1)
    IN  IF tried.out = NoWriter \/ ~tried.out.opened
        THEN [out |-> Writer("mp4v", e.baseline = "opened"),
              log |-> tried.log \o <<Call("print", "warning: no encoder"),
                                     Call("VideoWriter", "mp4v")>>]
        ELSE tried

\* FrameEvents saving a still only for a frame that was written
FrameEventsStillOfWritten(writer, idx) ==
    <<Event("render", "frame", idx)>>
    \o (IF IsOpened(writer)
        THEN <<Event("write", "frame", idx)>>
             \o (IF idx % StillEvery = 0 THEN <<Event("imwrite", "frame", idx)>> ELSE <<>>)
        ELSE <<>>)

\* lines 303-328: the calls of one pass of the frame loop
FrameEvents(writer, idx) ==
    <<Event("render", "frame", idx)>>
    \o (IF IsOpened(writer) THEN <<Event("write", "frame", idx)>> ELSE <<>>)
    \o (IF idx % StillEvery = 0 THEN <<Event("imwrite", "frame", idx)>> ELSE <<>>)

\* VerifyOutput warning only about an empty file
VerifyOutputEmptyOnly(file) ==
    IF ~file.exists
    THEN [video_file |-> "None", log |-> <<Call("print", "error: no video file")>>]
    ELSE [video_file |-> "mp4",
          log |-> <<Call("print", "saved")>>
                  \o (IF file.size = 0 THEN <<Call("print", "warning: file too small")>> ELSE <<>>)]

\* lines 337-348: the video file is verified
VerifyOutput(file) ==
    IF ~file.exists
    THEN [video_file |-> "None", log |-> <<Call("print", "error: no video file")>>]
    ELSE [video_file |-> "mp4",
          log |-> <<Call("print", "saved")>>
                  \o (IF file.size < MinFileSize THEN <<Call("print", "warning: file too small")>>
                      ELSE <<>>)]

\* line 375: video_file if video_file else gif_file
ReturnedFile(video, gif_file) == IF video # "None" THEN video ELSE gif_file

---------------------------------------------------------------------------
\* process (lines 1174-1223) and render_first_person_video (lines 235-375).

\* HasTrajectory asking only for the key
HasTrajectoryKey(data) == "robot_trajectory" \in DOMAIN data

\* lines 244, 248: robot_traj = episode_data.get("robot_trajectory", []) is not empty
HasTrajectory(data) == Get(data, "robot_trajectory", <<>>) # <<>>

Init ==
    /\ \E r \in Runs :
         /\ episode_file = r[1]
         /\ env = r[2]
         /\ also_save_gif = r[3]
    /\ episode_data = episode_file
    /\ pc = "navigation_data"
    /\ out = NoWriter
    /\ frames_written = 0
    /\ all_frames_bgr = <<>>
    /\ step_idx = 0
    /\ frame_step = -1
    /\ placed = <<>>
    /\ collected = <<>>
    /\ drawn = <<>>
    /\ shapes = <<>>
    /\ overlay = NoOverlay
    /\ layers = <<>>
    /\ log = <<>>
    /\ map_file = "unset"
    /\ video_file = "unset"
    /\ result = [map_file |-> "unset", video_file |-> "unset"]
    /\ error = "none"
    /\ call = [fn |-> "none"]
    /\ ret = [done |-> FALSE]

\* generate_navigation_data (lines 68-130): the two JSON files
GenerateNavigationData ==
    /\ pc = "navigation_data"
    /\ log' = log \o <<Call("dump", "metadata"), Call("dump", "info")>>
    /\ pc' = "scene_map"
    /\ UNCHANGED <<input_vars, frame_vars, episode_data, out, frames_written, all_frames_bgr,
                   step_idx, map_file, video_file, result, error>>

\* generate_scene_map (lines 132-233): None when there is nothing to draw
GenerateSceneMap ==
    /\ pc = "scene_map"
    /\ IF /\ Get(episode_data, "robot_trajectory", <<>>) = <<>>
          /\ Get(episode_data, "initial_obstacles", <<>>) = <<>>
       THEN /\ map_file' = "None"
            /\ log' = log \o <<Call("print", "warning: nothing to draw")>>
       ELSE /\ map_file' = "scene_map.jpg"
            /\ log' = log \o <<Call("imwrite", "scene_map")>>
    /\ pc' = "start"
    /\ UNCHANGED <<input_vars, frame_vars, episode_data, out, frames_written, all_frames_bgr,
                   step_idx, video_file, result, error>>

\* lines 248-250: no robot trajectory, return None
NoTrajectory ==
    /\ pc = "start"
    /\ ~HasTrajectory(episode_data)
    /\ log' = log \o <<Call("print", "warning: no trajectory")>>
    /\ video_file' = "None"
    /\ pc' = "returned"
    /\ UNCHANGED <<input_vars, frame_vars, episode_data, out, frames_written, all_frames_bgr,
                   step_idx, map_file, result, error>>

\* lines 252-300: the writer is set up, on to the frame loop
Start ==
    /\ pc = "start"
    /\ HasTrajectory(episode_data)
    /\ LET w == OpenWriter(env)
       IN  /\ out' = w.out
           /\ log' = log \o w.log
    /\ frames_written' = 0
    /\ all_frames_bgr' = <<>>
    /\ pc' = "render"
    /\ UNCHANGED <<input_vars, frame_vars, episode_data, step_idx, map_file, video_file,
                   result, error>>

FrameOf(idx) ==
    RenderFirstPersonFrame(episode_data.robot_trajectory[idx + 1],
                           episode_data.obstacle_trajectories,
                           episode_data.initial_obstacles, idx)

\* FrameReturned with obstacles_to_render kept from one frame to the next
FrameReturnedKeepingObstacles(f) ==
    /\ ~f.raised
    /\ placed' = f.placed
    /\ collected' = collected \o f.collected
    /\ drawn' = SortByDistance(collected \o f.collected)
    /\ shapes' = DrawObstacles(SortByDistance(collected \o f.collected), HorizonY(ImageHeight))
    /\ episode_data' = EpisodeAfterFrame(episode_data, f)

\* the frame f comes back from _render_first_person_frame
FrameReturned(f) ==
    /\ ~f.raised
    /\ placed' = f.placed
    /\ collected' = f.collected
    /\ drawn' = f.drawn
    /\ shapes' = f.shapes
    /\ episode_data' = EpisodeAfterFrame(episode_data, f)

\* NextStep rendering the same step again
NextStepRetry(idx) == idx

\* enumerate(robot_traj): the step after idx
NextStep(idx) == idx + 1

\* lines 302-331: one pass of the frame loop
RenderFrame ==
    /\ pc = "render"
    /\ step_idx < Len(episode_data.robot_trajectory)
    /\ FrameReturned(FrameOf(step_idx))
    /\ layers' = FrameLayers(drawn', episode_data.robot_trajectory[step_idx + 1])
    /\ overlay' = DrawUiInfo(episode_data, step_idx)
    /\ frame_step' = step_idx
    /\ log' = log \o FrameEvents(out, step_idx)
    /\ frames_written' = IF IsOpened(out) THEN frames_written + 1 ELSE frames_written
    /\ all_frames_bgr' = IF also_save_gif /\ step_idx % GifEvery = 0
                         THEN Append(all_frames_bgr, step_idx) ELSE all_frames_bgr
    /\ step_idx' = NextStep(step_idx)
    /\ UNCHANGED <<input_vars, pc, out, map_file, video_file, result, error>>

\* line 444 raises IndexError; nothing catches it, in the video routine or in process
RenderFrameRaises ==
    /\ pc = "render"
    /\ step_idx < Len(episode_data.robot_trajectory)
    /\ FrameOf(step_idx).raised
    /\ pc' = "failed"
    /\ error' = "IndexError"
    /\ UNCHANGED <<input_vars, frame_vars, episode_data, out, frames_written, all_frames_bgr,
                   step_idx, log, map_file, video_file, result>>

\* lines 333-375: the loop is over; release, check of the file, GIF, return
Finish ==
    /\ pc = "render"
    /\ step_idx = Len(episode_data.robot_trajectory)
    /\ LET v == VerifyOutput(env.file)
           gif == also_save_gif /\ Len(all_frames_bgr) > 0
       IN  /\ log' = log \o <<Call("release", out.codec)>> \o v.log
                         \o (IF gif THEN <<Call("save", "gif")>> ELSE <<>>)
           /\ video_file' = ReturnedFile(v.video_file, IF gif THEN "gif" ELSE "None")
    /\ pc' = "returned"
    /\ UNCHANGED <<input_vars, frame_vars, episode_data, out, frames_written, all_frames_bgr,
                   step_idx, map_file, result, error>>

\* lines 1209-1223: process returns its record
ProcessReturn ==
    /\ pc = "returned"
    /\ result' = [map_file |-> map_file, video_file |-> video_file]
    /\ pc' = "done"
    /\ UNCHANGED <<input_vars, frame_vars, episode_data, out, frames_written, all_frames_bgr,
                   step_idx, log, map_file, video_file, error>>

Next ==
    \/ GenerateNavigationData
    \/ GenerateSceneMap
    \/ NoTrajectory
    \/ Start
    \/ RenderFrame
    \/ RenderFrameRaises
    \/ Finish
    \/ ProcessReturn

Spec == Init /\ [][Next]_vars

---------------------------------------------------------------------------
\* The projection routines called on their own, one call per behaviour.

\* lateral offsets and depths in centimetres; depths around both guards (0 and
\* 0.01 m) and down to half a centimetre
Laterals == {-100000, -1000, -300, -1, 0, 1, 300, 1000, 100000}

Depths ==
    { RatInt(-100), RatInt(0), Rat(1, 2), RatInt(1), Rat(3, 2), RatInt(10), RatInt(300),
      RatInt(5000) }

\* image widths, an odd one among them
Widths == {320, ImageWidth, ImageWidth + 1}

Heights == {240, ImageHeight}

\* camera heights from the ground up to 3 m
CameraHeights == {0, 30, CameraHeight, 300}

ObjectHeights == {ObstacleHeight, WallHeight}

\* rows a horizon can be on: the top row, the row of line 405, the bottom row
HorizonRows(image_height) == {0, HorizonY(image_height), image_height - 1}

\* the headings with cosine and sine in fifths
AllHeadings ==
    { [c |-> c, s |-> s] : <<c, s>> \in { <<5, 0>>, <<-5, 0>>, <<0, 5>>, <<0, -5>>, <<3, 4>>,
                                          <<4, 3>>, <<-3, 4>>, <<-4, 3>>, <<3, -4>>, <<4, -3>>,
                                          <<-3, -4>>, <<-4, -3>> } }

\* world points 1 m apart on the grid spanned by the heading and its
\* right-hand normal (sin, -cos), around the robot
PointsAround(robot_pos) ==
    { <<robot_pos.x + 20 * (a * robot_pos.theta.c + b * robot_pos.theta.s),
        robot_pos.y + 20 * (a * robot_pos.theta.s - b * robot_pos.theta.c)>>
      : <<a, b>> \in (-2..2) \X (-2..2) }

Poses == { [x |-> p[1], y |-> p[2], theta |-> h] : p \in { <<0, 0>>, <<100, -200>> }, h \in AllHeadings }

ProjectionCalls ==
    { [fn |-> "project_to_screen_x", y |-> RatInt(y), z |-> z, image_width |-> w]
      : <<y, z, w>> \in Laterals \X Depths \X Widths }
    \cup UNION { { [fn |-> "project_to_screen_y", z |-> z, horizon_y |-> hy, image_height |-> h,
                    camera_height |-> ch]
                   : <<z, hy, ch>> \in Depths \X HorizonRows(h) \X CameraHeights }
                 : h \in Heights }
    \cup UNION { { [fn |-> "project_to_screen_y_with_height", z |-> z, height |-> oh,
                    horizon_y |-> hy, image_height |-> h, camera_height |-> ch]
                   : <<z, oh, hy, ch>> \in Depths \X ObjectHeights \X HorizonRows(h) \X CameraHeights }
                 : h \in Heights }
    \cup UNION { { [fn |-> "world_to_screen", wx |-> pt[1], wy |-> pt[2], robot_pos |-> rp,
                    image_width |-> ImageWidth]
                   : pt \in PointsAround(rp) }
                 : rp \in Poses }

\* heights of what is drawn: the ground level, an obstacle, a wall
RowHeights == {0} \cup ObjectHeights

\* the bottom and the top row of an obstacle at one depth, as the draw routines
\* ask for them
RowCalls ==
    UNION { { [fn |-> "obstacle_rows", z |-> c[1], height |-> c[2], horizon_y |-> c[3],
               image_height |-> h, camera_height |-> c[4]]
              : c \in Depths \X RowHeights \X HorizonRows(h) \X CameraHeights }
            : h \in Heights }

\* fields of view in degrees: below, at and above twice the pitch of 5 degrees
Fovs == {5, 7, 10, 45, Fov, 110}

FillCalls == { [fn |-> "background_fill", image_height |-> h, fov |-> f]
               : h \in Heights, f \in Fovs }

\* robot positions on a grid line, between lines, and at negative coordinates
GridPositions == { <<0, 0>>, <<-300, 250>>, <<-50, -1990>> }

GridPoses == { [x |-> p[1], y |-> p[2], theta |-> h] : p \in GridPositions, h \in BearingHeadings }

\* the passes of the two loops over the grid lines
GridCalls ==
    { [fn |-> "draw_grid_line", axis |-> c[1], n |-> c[2], robot_pos |-> c[3]]
      : c \in {"along_x", "along_y"} \X (1..(2 * GridRange + 1)) \X GridPoses }

\* an episode with nothing in it
EmptyEpisode ==
    [robot_trajectory |-> <<>>, initial_obstacles |-> <<>>, obstacle_trajectories |-> <<>>,
     actions |-> <<>>]

ProjectionInit ==
    /\ call \in ProjectionCalls \cup GridCalls \cup RowCalls \cup FillCalls
    /\ ret = [done |-> FALSE]
    /\ pc = "call"
    /\ episode_file = EmptyEpisode
    /\ episode_data = EmptyEpisode
    /\ env = NominalEnv
    /\ also_save_gif = FALSE
    /\ out = NoWriter
    /\ frames_written = 0
    /\ all_frames_bgr = <<>>
    /\ step_idx = 0
    /\ frame_step = -1
    /\ placed = <<>>
    /\ collected = <<>>
    /\ drawn = <<>>
    /\ shapes = <<>>
    /\ overlay = NoOverlay
    /\ layers = <<>>
    /\ log = <<>>
    /\ map_file = "unset"
    /\ video_file = "unset"
    /\ result = [map_file |-> "unset", video_file |-> "unset"]
    /\ error = "none"

run_vars ==
    <<episode_file, episode_data, env, also_save_gif, out, frames_written, all_frames_bgr,
      step_idx, frame_step, placed, collected, drawn, shapes, overlay, layers, log,
      map_file, video_file, result, error>>

\* _project_to_screen_x (lines 1038-1046)
CallProjectToScreenX ==
    /\ pc = "call"
    /\ call.fn = "project_to_screen_x"
    /\ ret' = [done |-> TRUE, value |-> ProjectToScreenX(call.y, call.z, call.image_width)]
    /\ pc' = "called"
    /\ UNCHANGED <<run_vars, call>>

\* _project_to_screen_y (lines 1048-1057)
CallProjectToScreenY ==
    /\ pc = "call"
    /\ call.fn = "project_to_screen_y"
    /\ ret' = [done |-> TRUE,
               value |-> ProjectToScreenY(call.z, call.horizon_y, call.image_height,
                                          call.camera_height)]
    /\ pc' = "called"
    /\ UNCHANGED <<run_vars, call>>

\* _project_to_screen_y_with_height (lines 1059-1068)
CallProjectToScreenYWithHeight ==
    /\ pc = "call"
    /\ call.fn = "project_to_screen_y_with_height"
    /\ ret' = [done |-> TRUE,
               value |-> ProjectToScreenYWithHeight(call.z, call.height, call.horizon_y,
                                                    call.image_height, call.camera_height)]
    /\ pc' = "called"
    /\ UNCHANGED <<run_vars, call>>

\* lines 539-545 and 929: a world point through the camera transform and on to
\* its screen column
CallWorldToScreen ==
    /\ pc = "call"
    /\ call.fn = "world_to_screen"
    /\ LET cam == WorldToCamera(call.wx, call.wy, call.robot_pos)
       IN  ret' = [done |-> TRUE, cam |-> cam,
                   value |-> ProjectToScreenX(cam.local_y, cam.local_x, call.image_width)]
    /\ pc' = "called"
    /\ UNCHANGED <<run_vars, call>>

\* one grid line of _draw_ground_grid (lines 608-650, 652-694)
CallDrawGridLine ==
    /\ pc = "call"
    /\ call.fn = "draw_grid_line"
    /\ ret' = [done |-> TRUE,
               value |-> DrawGridLine(call.axis, call.n, call.robot_pos, HorizonY(ImageHeight))]
    /\ pc' = "called"
    /\ UNCHANGED <<run_vars, call>>

\* lines 852 and 858 of _draw_polygon_obstacle, 930-931 of _draw_circle_obstacle:
\* the ground row and the top row of one point
CallObstacleRows ==
    /\ pc = "call"
    /\ call.fn = "obstacle_rows"
    /\ ret' = [done   |-> TRUE,
               bottom |-> ProjectToScreenY(call.z, call.horizon_y, call.image_height,
                                           call.camera_height),
               top    |-> ProjectToScreenYWithHeight(call.z, call.height, call.horizon_y,
                                                     call.image_height, call.camera_height)]
    /\ pc' = "called"
    /\ UNCHANGED <<run_vars, call>>

\* lines 405-427 of _render_first_person_frame: horizon row and background
CallBackgroundFill ==
    /\ pc = "call"
    /\ call.fn = "background_fill"
    /\ ret' = [done |-> TRUE, value |-> BackgroundFill(call.image_height, call.fov)]
    /\ pc' = "called"
    /\ UNCHANGED <<run_vars, call>>

ProjectionNext ==
    \/ CallBackgroundFill
    \/ CallDrawGridLine
    \/ CallObstacleRows
    \/ CallProjectToScreenX
    \/ CallProjectToScreenY
    \/ CallProjectToScreenYWithHeight
    \/ CallWorldToScreen

ProjectionSpec == ProjectionInit /\ [][ProjectionNext]_vars

---------------------------------------------------------------------------
\* Vocabulary of the properties: the frame the state shows, read against the
\* episode record of the input file.

FrameShown == frame_step >= 0

FramePose == episode_file.robot_trajectory[frame_step + 1]

FileObstacles == episode_file.initial_obstacles

FileTrajs == episode_file.obstacle_trajectories

ValidKey(key) == key \in 0..(Len(FileObstacles) - 1)

HasEntry(key) == \E k \in 1..Len(FileTrajs) : FileTrajs[k].id = key

TrajOfKey(key) == FileTrajs[CHOOSE k \in 1..Len(FileTrajs) : FileTrajs[k].id = key].traj

ObstacleOfKey(key) == PyIndex(FileObstacles, key)

DynamicObstacle(obs) == "is_dynamic" \in DOMAIN obs /\ obs.is_dynamic

StaticObstacle(obs) == ~DynamicObstacle(obs)

HasVertices(obs) == "vertices" \in DOMAIN obs

RingNext(cams, i) == cams[(i % Len(cams)) + 1]

AtOrBehindNear(v) == RatLeq(v.local_x, Eps)

BeyondNear(v) == RatLess(Eps, v.local_x)

\* pt has local_x = 0.1 and lies on the segment v1 v2 at the parameter
\* t = (0.1 - v1.local_x) / (v2.local_x - v1.local_x), in local_y and in distance
InterpolatedAtT(pt, v1, v2) ==
    /\ pt.local_x = Eps
    /\ RatMul(RatSub(pt.local_y, v1.local_y), RatSub(v2.local_x, v1.local_x))
         = RatMul(RatSub(Eps, v1.local_x), RatSub(v2.local_y, v1.local_y))
    /\ RatMul(RatSub(pt.distance, v1.distance), RatSub(v2.local_x, v1.local_x))
         = RatMul(RatSub(Eps, v1.local_x), RatSub(v2.distance, v1.distance))

Count(seq, e) == Cardinality({ i \in 1..Len(seq) : seq[i] = e })

IndexIn(seq, e) == CHOOSE i \in 1..Len(seq) : seq[i] = e

Distances(seq) == [i \in 1..Len(seq) |-> seq[i].distance]

RenderedKey(key) == \E j \in 1..Len(drawn) : drawn[j].key = key

\* the obstacle would pass its visibility test at its initial position
VisibleAtInitial(obs) ==
    IF IsPolygon(obs)
    THEN VisibleEdges(AllVerticesCamera(<<obs.vertices[1], obs.vertices[2]>>, FramePose)) # <<>>
    ELSE CircleVisible(WorldToCamera(obs.initial_center[1], obs.initial_center[2], FramePose),
                       RelativeAngle(obs.initial_center[1] - FramePose.x,
                                     obs.initial_center[2] - FramePose.y, FramePose.theta))

---------------------------------------------------------------------------
\* Properties.

\* C1: every visible edge the polygon clipper emits has both end points with
\* local_x >= 0.1, for every vertex ring and every robot pose.
C1_VisibleEdgesBeyondNearPlane ==
    \A k \in 1..Len(placed) : \A j \in 1..Len(placed[k].edges) :
        /\ RatLeq(Eps, placed[k].edges[j][1].local_x)
        /\ RatLeq(Eps, placed[k].edges[j][2].local_x)

\* C2: when exactly one end point of a ring edge has local_x <= 0.1 and the
\* other has local_x > 0.1, the emitted edge replaces the near end point by a
\* point with local_x = 0.1 whose local_y and distance are interpolated at the
\* same t = (0.1 - v1.local_x) / (v2.local_x - v1.local_x), and keeps the other
\* end point unmodified.
C2_ClipInterpolatesAtT ==
    \A k \in 1..Len(placed) : \A i \in 1..Len(placed[k].camera) :
        LET v1 == placed[k].camera[i]
            v2 == RingNext(placed[k].camera, i)
        IN  /\ placed[k].type = "polygon"
            /\ \/ AtOrBehindNear(v1) /\ BeyondNear(v2)
               \/ BeyondNear(v1) /\ AtOrBehindNear(v2)
            => \E j \in 1..Len(placed[k].edges) :
                 LET e == placed[k].edges[j]
                 IN  IF AtOrBehindNear(v1)
                     THEN e[2] = v2 /\ InterpolatedAtT(e[1], v1, v2)
                     ELSE e[1] = v1 /\ InterpolatedAtT(e[2], v1, v2)

\* The edge from local_x = -1 m to local_x = 3 m is clipped at t = 0.275.
C2_Witness ==
    /\ FrameShown
    /\ \E k \in 1..Len(placed) :
         /\ placed[k].type = "polygon"
         /\ placed[k].camera[1].local_x = RatInt(-100)
         /\ placed[k].camera[2].local_x = RatInt(300)
         /\ Len(placed[k].edges) >= 1
         /\ placed[k].edges[1][2] = placed[k].camera[2]
         /\ placed[k].edges[1][1].local_x = Eps
         /\ placed[k].edges[1][1].local_y =
              RatAdd(placed[k].camera[1].local_y,
                     RatMul(Rat(11, 40), RatSub(placed[k].camera[2].local_y,
                                                placed[k].camera[1].local_y)))
         /\ \E j \in 1..Len(drawn) : drawn[j].key = placed[k].key /\ drawn[j].edges = placed[k].edges

\* every vertex has local_x < 0.1 and no ring edge goes from local_x < 0 to local_x > 0
HiddenRing(cams) ==
    /\ \A i \in 1..Len(cams) : RatLess(cams[i].local_x, Eps)
    /\ \A i \in 1..Len(cams) :
         ~(RatLess(cams[i].local_x, RatInt(0)) /\ RatLess(RatInt(0), RingNext(cams, i).local_x))

\* C3: a polygon whose vertices all have local_x < 0.1, with no ring edge from
\* local_x < 0 to local_x > 0, has an empty visible-edge list; a polygon with an
\* empty visible-edge list is not in the render list and is not drawn.
C3_HiddenPolygonNotRendered ==
    \A k \in 1..Len(placed) :
        placed[k].type = "polygon" =>
            /\ HiddenRing(placed[k].camera) => placed[k].edges = <<>>
            /\ placed[k].edges = <<>> =>
                 /\ \A j \in 1..Len(collected) : collected[j].key # placed[k].key
                 /\ ~RenderedKey(placed[k].key)

C3_Witness ==
    /\ FrameShown
    /\ \E k \in 1..Len(placed) :
         /\ placed[k].type = "polygon"
         /\ HiddenRing(placed[k].camera)
         /\ ~RenderedKey(placed[k].key)

\* C4: the obstacles that passed their visibility test are drawn in
\* non-increasing order of representative distance, and the drawn sequence is a
\* permutation of them.
C4_DrawnFarthestFirst ==
    /\ \A i, j \in 1..Len(drawn) : i < j => drawn[i].distance >= drawn[j].distance
    /\ Len(drawn) = Len(collected)
    /\ \A i \in 1..Len(collected) : Count(drawn, collected[i]) = Count(collected, collected[i])

\* Distances 5 m, 15 m, 10 m are drawn in the order 15 m, 10 m, 5 m.
C4_Witness ==
    /\ FrameShown
    /\ Distances(collected) = <<500, 1500, 1000>>
    /\ Distances(drawn) = <<1500, 1000, 500>>

\* C5 as stated: of two obstacles (two different entries of initial_obstacles)
\* drawn in the same frame, the one drawn earlier has a strictly greater
\* representative distance.
C5_StrictlyDescending ==
    \A i, j \in 1..Len(drawn) :
        i < j /\ drawn[i].obs_info # drawn[j].obs_info =>
            drawn[i].distance > drawn[j].distance

\* C5 as amended: of two obstacles drawn in the same frame, the one drawn
\* earlier has a greater or equal representative distance, and two obstacles
\* of equal distance are drawn in the order in which they were collected.
C5_DescendingTiesInCollectionOrder ==
    \A i, j \in 1..Len(drawn) :
        i < j =>
            \/ drawn[i].distance > drawn[j].distance
            \/ /\ drawn[i].distance = drawn[j].distance
               /\ IndexIn(collected, drawn[i]) < IndexIn(collected, drawn[j])

C5_Witness ==
    /\ FrameShown
    /\ \E i, j \in 1..Len(drawn) :
         /\ i < j
         /\ drawn[i].distance = drawn[j].distance
         /\ drawn[i].obs_info # drawn[j].obs_info
         /\ ValidKey(drawn[i].key) /\ ValidKey(drawn[j].key)

\* C6: for a dynamic polygon at a step inside its trajectory, every vertex used
\* for the frame is its initial vertex plus (trajectory position at that step -
\* initial_center), whatever frames were rendered before.
C6_DynamicVerticesFromInitial ==
    \A k \in 1..Len(placed) :
        LET obs == ObstacleOfKey(placed[k].key)
            traj == TrajOfKey(placed[k].key)
        IN  /\ placed[k].type = "polygon"
            /\ DynamicObstacle(obs)
            /\ frame_step < Len(traj)
            => /\ Len(placed[k].vertices[1]) = Len(obs.vertices[1])
               /\ Len(placed[k].vertices[2]) = Len(obs.vertices[2])
               /\ \A i \in 1..Len(obs.vertices[1]) :
                    placed[k].vertices[1][i] =
                        obs.vertices[1][i] + (traj[frame_step + 1].x - obs.initial_center[1])
               /\ \A i \in 1..Len(obs.vertices[2]) :
                    placed[k].vertices[2][i] =
                        obs.vertices[2][i] + (traj[frame_step + 1].y - obs.initial_center[2])

\* In a second frame, the polygon with initial_center (0, 0) recorded at
\* (2 m, 3 m) has every vertex shifted by (+2 m, +3 m).
C6_Witness ==
    /\ frame_step >= 1
    /\ \E k \in 1..Len(placed) :
         /\ placed[k].type = "polygon"
         /\ DynamicObstacle(ObstacleOfKey(placed[k].key))
         /\ ObstacleOfKey(placed[k].key).initial_center = <<0, 0>>
         /\ frame_step < Len(TrajOfKey(placed[k].key))
         /\ TrajOfKey(placed[k].key)[frame_step + 1] = Pos(200, 300)
         /\ placed[k].vertices = << <<100, 500, 205>>, <<300, 400, 200>> >>

\* C7: a dynamic obstacle at a step index >= the length of its trajectory is
\* placed at its initial position (initial_center, initial vertices); it is
\* neither dropped nor extrapolated.
C7_ShortTrajectoryFallsBack ==
    FrameShown =>
        \A e \in 1..Len(FileTrajs) :
            LET key == FileTrajs[e].id
                obs == ObstacleOfKey(key)
            IN  /\ ValidKey(key)
                /\ DynamicObstacle(obs)
                /\ frame_step >= Len(FileTrajs[e].traj)
                => \E k \in 1..Len(placed) :
                     /\ placed[k].key = key
                     /\ placed[k].center = obs.initial_center
                     /\ HasVertices(obs) =>
                          placed[k].vertices = <<obs.vertices[1], obs.vertices[2]>>

C7_Witness ==
    /\ FrameShown
    /\ \E k \in 1..Len(placed) :
         /\ ValidKey(placed[k].key)
         /\ DynamicObstacle(ObstacleOfKey(placed[k].key))
         /\ Len(TrajOfKey(placed[k].key)) > 0
         /\ frame_step >= Len(TrajOfKey(placed[k].key))
         /\ placed[k].center = ObstacleOfKey(placed[k].key).initial_center

\* C8: an obstacle with is_dynamic false or absent is rendered at its
\* initial_center with its initial vertices (when it has two coordinate lists,
\* the first of three or more entries) at every step, whatever its trajectory
\* records for that step.
C8_StaticStaysAtInitial ==
    \A k \in 1..Len(placed) :
        LET obs == ObstacleOfKey(placed[k].key)
        IN  StaticObstacle(obs) =>
                /\ placed[k].center = obs.initial_center
                /\ HasVertices(obs) /\ Len(obs.vertices) = 2 /\ Len(obs.vertices[1]) >= 3 =>
                     placed[k].vertices = <<obs.vertices[1], obs.vertices[2]>>
                /\ \A j \in 1..Len(drawn) :
                     drawn[j].key = placed[k].key /\ drawn[j].type = "circle" =>
                         LET cam == WorldToCamera(obs.initial_center[1], obs.initial_center[2],
                                                  FramePose)
                         IN  /\ drawn[j].local_x = cam.local_x
                             /\ drawn[j].local_y = cam.local_y

C8_Witness ==
    /\ FrameShown
    /\ \E k \in 1..Len(placed) :
         LET obs == ObstacleOfKey(placed[k].key)
             traj == TrajOfKey(placed[k].key)
         IN  /\ StaticObstacle(obs)
             /\ frame_step < Len(traj)
             /\ <<traj[frame_step + 1].x, traj[frame_step + 1].y>> # obs.initial_center
             /\ placed[k].center = obs.initial_center
             /\ RenderedKey(placed[k].key)

\* C9: for every key of obstacle_trajectories outside 0..len(initial_obstacles)-1
\* the frame adds no obstacle for that key and raises no error.
C9_UnknownKeysSkipped ==
    /\ error = "none"
    /\ \A k \in 1..Len(placed) : ValidKey(placed[k].key)
    /\ \A j \in 1..Len(drawn) : ValidKey(drawn[j].key)

\* C10: a static obstacle of initial_obstacles without an entry in
\* obstacle_trajectories is evaluated at its initial position in every frame
\* and drawn when visible.
C10_StaticWithoutTrajectoryDrawn ==
    FrameShown =>
        \A i \in 1..Len(FileObstacles) :
            /\ StaticObstacle(FileObstacles[i])
            /\ ~HasEntry(i - 1)
            /\ VisibleAtInitial(FileObstacles[i])
            => \E j \in 1..Len(drawn) : drawn[j].obs_info = FileObstacles[i]

---------------------------------------------------------------------------
\* Vocabulary of the video routine's properties: the calls on the collaborators.

Logged(e) == \E i \in 1..Len(log) : log[i] = e

Position(e) == CHOOSE i \in 1..Len(log) : log[i] = e

\* the steps of the calls ev made for a frame, in call order
RECURSIVE StepsFrom(_, _)
StepsFrom(ev, i) ==
    IF i > Len(log) THEN <<>>
    ELSE (IF log[i].ev = ev /\ log[i].name = "frame" THEN <<log[i].step>> ELSE <<>>)
         \o StepsFrom(ev, i + 1)

FrameSteps(ev) == StepsFrom(ev, 1)

UpTo(n) == [i \in 1..n |-> i - 1]

\* the writers created, in call order
RECURSIVE WritersFrom(_)
WritersFrom(i) ==
    IF i > Len(log) THEN <<>>
    ELSE (IF log[i].ev = "VideoWriter" THEN <<log[i].name>> ELSE <<>>) \o WritersFrom(i + 1)

WritersCreated == WritersFrom(1)

FileTrajectory == Get(episode_file, "robot_trajectory", <<>>)

VideoReturned == pc \in {"returned", "done"}

\* the first codec whose writer opens, Len(Codecs) + 1 when none does
FirstOpened ==
    IF \E i \in 1..Len(Codecs) : env.codecs[i] = "opened"
    THEN CHOOSE i \in 1..Len(Codecs) :
            /\ env.codecs[i] = "opened"
            /\ \A j \in 1..(i - 1) : env.codecs[j] # "opened"
    ELSE Len(Codecs) + 1

\* the writer has been set up (the codec loop and the baseline are behind)
WriterSetUp == pc \in {"render", "returned", "done", "failed"} /\ FileTrajectory # <<>>

---------------------------------------------------------------------------
\* Properties of process and render_first_person_video.

\* C11: with an empty or missing robot_trajectory the video routine prints a
\* diagnostic and returns None without creating a writer, rendering a frame or
\* writing a video, a still or a GIF; process runs to its end without an
\* exception and reports video_file as None.
C11_EmptyTrajectoryReturnsNone ==
    FileTrajectory = <<>> =>
        /\ error = "none"
        /\ pc # "failed"
        /\ pc = "done" \/ ENABLED Next
        /\ out = NoWriter /\ frames_written = 0 /\ frame_step = -1 /\ all_frames_bgr = <<>>
        /\ \A i \in 1..Len(log) :
             /\ log[i].ev \notin {"VideoWriter", "render", "write", "save", "release"}
             /\ log[i].ev = "imwrite" => log[i].name = "scene_map"
        /\ VideoReturned =>
             /\ video_file = "None"
             /\ Logged(Call("print", "warning: no trajectory"))
        /\ pc = "done" => result.video_file = "None"

\* process has returned for an episode record without a robot_trajectory key.
C11_Witness ==
    /\ "robot_trajectory" \notin DOMAIN episode_file
    /\ pc = "done"
    /\ result.video_file = "None"
    /\ Logged(Call("print", "warning: no trajectory"))
    /\ ~Logged(Call("VideoWriter", "avc1"))

\* C12: with an opened writer and N steps, the frames are rendered and written
\* one per step in the order 0, 1, ..., N-1, frame k is written before frame
\* k+1 is rendered, and the loop ends with frames_written = N.  (A frame in
\* which line 444 raises leaves the loop by the exception; the property speaks
\* of the runs in which no frame raises.)
C12_FramesInStepOrder ==
    WriterSetUp /\ IsOpened(out) /\ error = "none" =>
        /\ FrameSteps("render") = UpTo(step_idx)
        /\ FrameSteps("write") = UpTo(step_idx)
        /\ frames_written = step_idx
        /\ frame_step = step_idx - 1
        /\ step_idx <= Len(FileTrajectory)
        /\ \A k \in 0..(step_idx - 1) :
             /\ Position(Event("render", "frame", k)) < Position(Event("write", "frame", k))
             /\ k + 1 < step_idx =>
                  Position(Event("write", "frame", k)) < Position(Event("render", "frame", k + 1))
        /\ VideoReturned => frames_written = Len(FileTrajectory)

\* A run over a trajectory of at least two steps has ended with every frame written.
C12_Witness ==
    /\ pc = "done"
    /\ IsOpened(out)
    /\ Len(FileTrajectory) >= 2
    /\ frames_written = Len(FileTrajectory)
    /\ FrameSteps("write") = UpTo(Len(FileTrajectory))

\* C13: the writers are created for avc1, H264, X264, mp4v in this order up to
\* the first that opens and for none after it; a writer that did not open is
\* released before the next is created; the baseline mp4v writer is created,
\* after a warning, exactly when none opened; and the frames are rendered in
\* every case.
C13_CodecFallbackInOrder ==
    WriterSetUp =>
        LET first == FirstOpened
            tried == Min(first, Len(Codecs))
        IN  /\ WritersCreated =
                 [i \in 1..tried |-> Codecs[i]]
                 \o (IF first > Len(Codecs) THEN <<"mp4v">> ELSE <<>>)
            /\ \A i \in 1..tried :
                 env.codecs[i] = "closed" =>
                     /\ Logged(Call("release", Codecs[i]))
                     /\ log[Position(Call("VideoWriter", Codecs[i])) + 1]
                          = Call("release", Codecs[i])
            /\ IF first <= Len(Codecs)
               THEN /\ out = Writer(Codecs[first], TRUE)
                    /\ ~Logged(Call("print", "warning: no encoder"))
               ELSE /\ out = Writer("mp4v", env.baseline = "opened")
                    /\ Logged(Call("print", "warning: no encoder"))
                    /\ \A i \in 1..Len(log) :
                         log[i].ev \in {"VideoWriter", "release"} /\ log[i].step = -1
                         /\ i < Position(Call("print", "warning: no encoder"))
                         => log[i].name \in { Codecs[j] : j \in 1..Len(Codecs) }
                    /\ log[Position(Call("print", "warning: no encoder")) + 1]
                         = Call("VideoWriter", "mp4v")
            /\ error = "none" =>
                 /\ FrameSteps("render") = UpTo(step_idx)
                 /\ step_idx <= Len(FileTrajectory)
                 /\ VideoReturned => Len(FrameSteps("render")) = Len(FileTrajectory)

\* No codec opens (two writers report closed, two calls raise) and neither does
\* the baseline writer: every frame has been rendered, none written.
C13_Witness ==
    /\ pc = "done"
    /\ env.codecs = <<"closed", "raised", "closed", "raised">>
    /\ env.baseline = "closed"
    /\ WritersCreated = <<"avc1", "H264", "X264", "mp4v", "mp4v">>
    /\ Len(FileTrajectory) >= 1
    /\ Len(FrameSteps("render")) = Len(FileTrajectory)
    /\ frames_written = 0

\* C14: after the release of the writer the video file is checked: an error is
\* printed exactly when it does not exist, a warning exactly when it exists
\* with less than 1024 bytes; the routine returns the video path when the file
\* exists, else the GIF path when a GIF was saved, else None.
C14_OutputVerified ==
    VideoReturned /\ FileTrajectory # <<>> =>
        LET missing == Call("print", "error: no video file")
            small   == Call("print", "warning: file too small")
            gif     == Logged(Call("save", "gif"))
        IN  /\ Logged(Call("release", out.codec))
            /\ Logged(missing) <=> ~env.file.exists
            /\ Logged(small) <=> (env.file.exists /\ env.file.size < MinFileSize)
            /\ Logged(missing) => Position(Call("release", out.codec)) < Position(missing)
            /\ Logged(small) => Position(Call("release", out.codec)) < Position(small)
            /\ env.file.exists => video_file = "mp4"
            /\ ~env.file.exists => video_file = (IF gif THEN "gif" ELSE "None")
            /\ gif <=> also_save_gif

\* The video file is absent and a GIF was asked for: the GIF path comes back.
C14_Witness ==
    /\ pc = "done"
    /\ FileTrajectory # <<>>
    /\ ~env.file.exists
    /\ also_save_gif
    /\ Logged(Call("print", "error: no video file"))
    /\ video_file = "gif"
    /\ result.video_file = "gif"

---------------------------------------------------------------------------
\* Properties of the projection routines, over single calls.

Called(fn) == call.fn = fn /\ ret.done

PositiveDepth(z) == RatLess(RatInt(0), z)

\* C15: for every depth z > 0, _project_to_screen_x does not decrease when the
\* lateral offset grows, and it returns the centre column width / 2 for the
\* lateral offset 0 (a column is an integer: for an odd width, int(width / 2)).
C15_ProjectXMonotonic ==
    Called("project_to_screen_x") /\ PositiveDepth(call.z) =>
        /\ \A y2 \in Laterals :
             /\ RatLeq(call.y, RatInt(y2)) =>
                  ret.value <= ProjectToScreenX(RatInt(y2), call.z, call.image_width)
             /\ RatLeq(RatInt(y2), call.y) =>
                  ProjectToScreenX(RatInt(y2), call.z, call.image_width) <= ret.value
        /\ call.y = RatInt(0) => ret.value = Trunc(Rat(call.image_width, 2))

\* At the depth 0.1 m the offset +0.01 m lands 32 columns right of the centre.
C15_Witness ==
    /\ Called("project_to_screen_x")
    /\ call.z = RatInt(10)
    /\ call.y = RatInt(1)
    /\ call.image_width = ImageWidth
    /\ ret.value = 352
    /\ ProjectToScreenX(RatInt(0), call.z, call.image_width) = 320

AlongHeading(c) ==
    (c.wx - c.robot_pos.x) * c.robot_pos.theta.c + (c.wy - c.robot_pos.y) * c.robot_pos.theta.s

ToTheRight(c) ==
    (c.wx - c.robot_pos.x) * c.robot_pos.theta.s - (c.wy - c.robot_pos.y) * c.robot_pos.theta.c

\* C20: for every heading, a point on the heading ray has local_y = 0 and
\* local_x = distance; local_x is positive exactly for the points in front; a
\* point to the right of the robot has local_y > 0 and, in front, a column
\* >= width / 2; a point to its left has local_y < 0 and, in front, a column
\* <= width / 2.
C20_ForwardAndRight ==
    Called("world_to_screen") =>
        LET fwd   == AlongHeading(call)
            right == ToTheRight(call)
            cam   == ret.cam
        IN  /\ right = 0 /\ fwd > 0 => cam.local_y = RatInt(0) /\ cam.local_x = cam.distance
            /\ fwd > 0 <=> PositiveDepth(cam.local_x)
            /\ right > 0 =>
                 /\ RatLess(RatInt(0), cam.local_y)
                 /\ fwd > 0 => 2 * ret.value >= call.image_width
            /\ right < 0 =>
                 /\ RatLess(cam.local_y, RatInt(0))
                 /\ fwd > 0 => 2 * ret.value <= call.image_width

\* Heading (3/5, 4/5): the point 2 m ahead and 1 m to the right lands 160
\* columns right of the centre.
C20_Witness ==
    /\ Called("world_to_screen")
    /\ call.robot_pos.theta = [c |-> 3, s |-> 4]
    /\ AlongHeading(call) = 200 * TrigDen /\ ToTheRight(call) = 100 * TrigDen
    /\ ret.cam.local_x = RatInt(200) /\ ret.cam.local_y = RatInt(100)
    /\ ret.value = 480

---------------------------------------------------------------------------
\* One obstacle straight ahead (C18).

\* the obstacle's centre seen from step k: TrigDen times its distance along the
\* heading, and TrigDen times its offset across it
AheadAt(k) ==
    LET p == FileTrajectory[k + 1]
        c == FileObstacles[1].initial_center
    IN  (c[1] - p.x) * p.theta.c + (c[2] - p.y) * p.theta.s

AcrossAt(k) ==
    LET p == FileTrajectory[k + 1]
        c == FileObstacles[1].initial_center
    IN  (c[1] - p.x) * p.theta.s - (c[2] - p.y) * p.theta.c

\* an episode of EndToEndSteps steps with one static circular obstacle, a robot
\* that keeps its heading, and the obstacle straight ahead of it at every step,
\* between the near limit and the view distance
AheadEpisode ==
    /\ Len(FileTrajectory) = EndToEndSteps
    /\ Len(FileObstacles) = 1
    /\ StaticObstacle(FileObstacles[1])
    /\ ~HasVertices(FileObstacles[1])
    /\ HasEntry(0)
    /\ \A k \in 0..(EndToEndSteps - 1) :
         /\ FileTrajectory[k + 1].theta = FileTrajectory[1].theta
         /\ AcrossAt(k) = 0
         /\ AheadAt(k) > NearEps * TrigDen
         /\ AheadAt(k) < ViewDistance * TrigDen

\* C18 as stated: the column of the obstacle stays within 2 px of width / 2 and
\* its screen_radius strictly decreases from one frame to the next whenever its
\* distance has increased.
C18_RadiusStrictlyDecreases ==
    [][ AheadEpisode /\ frame_step >= 0 /\ frame_step' = frame_step + 1
        /\ AheadAt(frame_step') > AheadAt(frame_step)
        => /\ Len(drawn') = 1
           /\ Abs(2 * shapes'[1].screen_x - ImageWidth) <= 4
           /\ shapes'[1].screen_radius < shapes[1].screen_radius ]_vars

\* C18: in every frame of such an episode the obstacle is drawn with its column
\* within 2 px of width / 2, and from one frame to the next its screen_radius
\* does not increase when its distance has increased (int() of line 934 maps
\* neighbouring distances to the same radius, so it need not decrease).
C18_ColumnCentredRadiusNeverGrows ==
    [][ AheadEpisode /\ frame_step' >= 0 /\ frame_step' # frame_step
        => /\ Len(drawn') = 1
           /\ Abs(2 * shapes'[1].screen_x - ImageWidth) <= 4
           /\ (frame_step >= 0 /\ AheadAt(frame_step') > AheadAt(frame_step)
               => shapes'[1].screen_radius <= shapes[1].screen_radius) ]_vars

\* The last frame of an episode in which the robot backs away from 10 m to
\* 14 m: the obstacle of radius 0.5 m is in column 320 with radius 11 (16 in
\* the first frame).
C18_Witness ==
    /\ AheadEpisode
    /\ frame_step = EndToEndSteps - 1
    /\ AheadAt(0) = 1000 * TrigDen
    /\ AheadAt(frame_step) = 1400 * TrigDen
    /\ Len(drawn) = 1
    /\ drawn[1].distance = 1400
    /\ shapes[1].screen_x = 320
    /\ shapes[1].screen_radius = 11
    /\ shapes[1].painted

---------------------------------------------------------------------------
\* A frame depends on the episode record and the step only (C19).

\* the frame held in the frame variables is the frame f
FrameIs(f) ==
    /\ ~f.raised
    /\ placed = f.placed
    /\ collected = f.collected
    /\ drawn = f.drawn
    /\ shapes = f.shapes

---------------------------------------------------------------------------
\* Visibility of a circular obstacle (C21).

\* the heading of a pose without its full turns
Unwound(pose) == [x |-> pose.x, y |-> pose.y, theta |-> [c |-> pose.theta.c, s |-> pose.theta.s]]

\* the bearing of the point w seen from the pose, brought into (-pi, pi], is
\* below half the field of view in absolute value: w is ahead and its offset
\* across the heading is less than its offset along it times tan(fov / 2)
BearingInFov(w, pose) ==
    LET along  == (w[1] - pose.x) * pose.theta.c + (w[2] - pose.y) * pose.theta.s
        across == (w[1] - pose.x) * pose.theta.s - (w[2] - pose.y) * pose.theta.c
    IN  along > 0 /\ RatLess(RatInt(Abs(across)), RatMul(RatInt(along), TanHalfFov))

\* local_x > 0.1, distance < view_distance and the bearing within the field of view
ExpectedInView(p) ==
    /\ RatLess(Eps, p.camera[1].local_x)
    /\ p.camera[1].distance.num < ViewDistance
    /\ BearingInFov(p.center, FramePose)

\* the keys of the circular obstacles among placed[j..] that are expected in view
RECURSIVE ExpectedCircles(_)
ExpectedCircles(j) ==
    IF j > Len(placed) THEN <<>>
    ELSE (IF placed[j].type = "circle" /\ ExpectedInView(placed[j])
          THEN <<placed[j].key>> ELSE <<>>) \o ExpectedCircles(j + 1)

\* the keys of the circular obstacles among collected[j..]
RECURSIVE CollectedCircles(_)
CollectedCircles(j) ==
    IF j > Len(collected) THEN <<>>
    ELSE (IF collected[j].type = "circle" THEN <<collected[j].key>> ELSE <<>>)
         \o CollectedCircles(j + 1)

\* C21: the circular obstacles in the render list of a frame are exactly those
\* with local_x > 0.1, distance < 50 m and the wrapped bearing below half the
\* field of view in absolute value, and the list is the one the frame has for
\* the same heading without its full turns.
C21_CircleVisibleIffInView ==
    FrameShown =>
        /\ CollectedCircles(1) = ExpectedCircles(1)
        /\ drawn = RenderFirstPersonFrame(Unwound(FramePose), FileTrajs, FileObstacles,
                                          frame_step).drawn

\* A frame of a robot whose heading (-4/5, -3/5) is recorded one full turn
\* above its principal value: of the obstacles ahead, the one at bearing about
\* 43 degrees is in the list, those 5 cm and 10 cm ahead, 50 m ahead and at
\* bearing 45 degrees are not.
C21_Witness ==
    /\ FrameShown
    /\ FramePose.theta = [c |-> -4, s |-> -3, turns |-> 1]
    /\ Len(placed) = Len(BearingPoints)
    /\ CollectedCircles(1) = <<2, 3, 4, 9, 10, 11>>

---------------------------------------------------------------------------
\* The clipper walks the ring (C22).

\* the emitted edge e comes from the ring edge v1 -> v2 with its orientation:
\* each end is the end point of the ring edge on its side, or a point on the
\* near plane standing for an end point that is not beyond it
ComesFrom(e, v1, v2) ==
    /\ e[1] = v1 \/ (e[1].local_x = Eps /\ AtOrBehindNear(v1) /\ e[2] = v2)
    /\ e[2] = v2 \/ (e[2].local_x = Eps /\ AtOrBehindNear(v2) /\ e[1] = v1)

\* the edges es come from the ring cams: edge by edge from ring edges of
\* increasing index, with every ring edge that lies beyond the near plane
\* among them unchanged
WalksRing(es, cams) ==
    \E f \in [1..Len(es) -> 1..Len(cams)] :
        /\ \A i, j \in 1..Len(es) : i < j => f[i] < f[j]
        /\ \A j \in 1..Len(es) : ComesFrom(es[j], cams[f[j]], RingNext(cams, f[j]))
        /\ \A i \in 1..Len(cams) :
             BeyondNear(cams[i]) /\ BeyondNear(RingNext(cams, i))
             => \E j \in 1..Len(es) : f[j] = i /\ es[j] = <<cams[i], RingNext(cams, i)>>

\* C22: the visible edges of a polygon come one per ring edge at most, in ring
\* order and with the orientation of the ring edge, from the n ring edges
\* i -> (i + 1) mod n, the closing edge included, and a ring edge with both end
\* points at local_x > 0.1 is emitted unchanged.
C22_ClipperWalksRing ==
    \A k \in 1..Len(placed) :
        placed[k].type = "polygon" => WalksRing(placed[k].edges, placed[k].camera)

\* A polygon whose closing edge, from the last vertex to the first, lies
\* beyond the near plane and is emitted unchanged as the last visible edge,
\* after an edge that was clipped.
C22_Witness ==
    /\ FrameShown
    /\ \E k \in 1..Len(placed) :
         LET cams == placed[k].camera
             es   == placed[k].edges
         IN  /\ placed[k].type = "polygon"
             /\ Len(es) >= 2
             /\ Len(es) < Len(cams)
             /\ BeyondNear(cams[Len(cams)]) /\ BeyondNear(cams[1])
             /\ cams[Len(cams)] # cams[1]
             /\ es[Len(es)] = <<cams[Len(cams)], cams[1]>>
             /\ \E j \in 1..Len(es) :
                  es[j][1].local_x = Eps /\ \A i \in 1..Len(cams) : es[j][1] # cams[i]

---------------------------------------------------------------------------
\* The layers of a frame (C23).

\* where a layer of that name is in the frame
LayerPositions(name) == { i \in 1..Len(layers) : layers[i].layer = name }

\* every layer named a comes before every layer named b
LayersBefore(a, b) == \A i \in LayerPositions(a), j \in LayerPositions(b) : i < j

\* C23: a frame is painted back to front: the background once and first, then
\* the ground grid once, then the landmarks and, where it is in view, the sun,
\* then the obstacles in their sorted order, then the text box and the
\* compass, after which nothing is painted.
C23_LayersBackToFront ==
    FrameShown =>
        /\ LayerPositions("background") = {1}
        /\ LayerPositions("grid") = {2}
        /\ LayerPositions("landmarks") = {3}
        /\ LayersBefore("landmarks", "sun")
        /\ LayersBefore("grid", "obstacle")
        /\ LayersBefore("landmarks", "obstacle")
        /\ LayersBefore("sun", "obstacle")
        /\ LayersBefore("obstacle", "ui_text")
        /\ Cardinality(LayerPositions("obstacle")) = Len(drawn)
        /\ \A i, j \in LayerPositions("obstacle") :
             i < j => layers[i].index < layers[j].index
        /\ LayerPositions("ui_text") = {Len(layers) - 1}
        /\ LayerPositions("compass") = {Len(layers)}

\* A frame with the sun in view and three obstacles: nine layers, the
\* obstacles fifth to seventh.
C23_Witness ==
    /\ FrameShown
    /\ Len(drawn) = 3
    /\ Len(layers) = 9
    /\ layers[4].layer = "sun"
    /\ LayerPositions("obstacle") = {5, 6, 7}
    /\ layers[9].layer = "compass"

---------------------------------------------------------------------------
\* The ground grid (C24, C25).

\* the grid cell of a world coordinate: the g with g * 2 m <= coord < (g + 1) * 2 m
CellOf(coord) == CHOOSE g \in -100..100 : g * GridSize <= coord /\ coord < (g + 1) * GridSize

\* the world point of sample k of the line that was drawn
SampleWorld(line, k) ==
    LET pose == call.robot_pos
        w    == (CellOf(IF line.axis = "along_x" THEN pose.x ELSE pose.y) - GridRange + k - 1)
                * GridSize
    IN  IF line.axis = "along_x" THEN <<w, line.world>> ELSE <<line.world, w>>

\* sample k of the line is visible: 0.1 m < local_x < 50 m, range < 50 m, the
\* bearing below half the field of view, and the projection on the screen at
\* or below the horizon
SampleVisible(line, k) ==
    LET pose   == call.robot_pos
        w      == SampleWorld(line, k)
        dx     == w[1] - pose.x
        dy     == w[2] - pose.y
        along  == dx * pose.theta.c + dy * pose.theta.s
        across == dx * pose.theta.s - dy * pose.theta.c
        col    == ProjectToScreenX(Rat(across, TrigDen), Rat(along, TrigDen), ImageWidth)
        row    == ProjectToScreenY(Rat(along, TrigDen), HorizonY(ImageHeight), ImageHeight,
                                   CameraHeight)
    IN  /\ along > NearEps * TrigDen
        /\ along < ViewDistance * TrigDen
        /\ dx * dx + dy * dy < ViewDistance * ViewDistance
        /\ Abs(across) * TanHalfFov.den < along * TanHalfFov.num
        /\ col \in 0..(ImageWidth - 1)
        /\ row \in HorizonY(ImageHeight)..(ImageHeight - 1)

\* C24: every segment of a grid line joins two samples that are next to each
\* other on the line and both visible, so no segment passes over a sample that
\* is not visible.
C24_SegmentsJoinNeighbours ==
    Called("draw_grid_line") =>
        \A i \in 1..Len(ret.value.segments) :
            LET a == ret.value.segments[i][1].sample
                b == ret.value.segments[i][2].sample
            IN  /\ Abs(a - b) = 1
                /\ SampleVisible(ret.value, a)
                /\ SampleVisible(ret.value, b)

\* A grid line along the world x axis with three segments or more, seen by a
\* robot heading (-4/5, 3/5): some of its samples are visible and some are not,
\* and the sort by depth has put the samples in descending order.
C24_Witness ==
    /\ Called("draw_grid_line")
    /\ call.axis = "along_x"
    /\ Len(ret.value.segments) >= 3
    /\ call.robot_pos.theta = [c |-> -4, s |-> 3]
    /\ \E k \in 1..(2 * GridRange + 1) : SampleVisible(ret.value, k)
    /\ \E k \in 1..(2 * GridRange + 1) : ~SampleVisible(ret.value, k)
    /\ ret.value.segments[1][1].sample > ret.value.segments[1][2].sample

\* the robot's coordinate across the lines of the axis
AcrossLines(c) == IF c.axis = "along_x" THEN c.robot_pos.y ELSE c.robot_pos.x

\* C25: the n-th grid line considered on an axis has the index
\* floor(robot / 2.0) - 30 + n - 1, lies at the world coordinate index * 2 m,
\* and is a major line exactly when its index is a multiple of 5, that is when
\* its world coordinate is a multiple of 10 m, whatever the robot pose.
C25_GridWorldAnchored ==
    Called("draw_grid_line") =>
        /\ ret.value.grid_idx = CellOf(AcrossLines(call)) - GridRange + call.n - 1
        /\ ret.value.world = ret.value.grid_idx * GridSize
        /\ ret.value.is_major <=> (\E m \in -100..100 : ret.value.grid_idx = MajorEvery * m)
        /\ ret.value.is_major <=> (\E m \in -100..100 : ret.value.world = m * MajorEvery * GridSize)
        /\ ret.value.thickness = IF ret.value.is_major THEN 2 ELSE 1

\* The line at world x = -10 m, drawn with segments as a major line for a
\* robot at x = -3 m, between two grid lines.
C25_Witness ==
    /\ Called("draw_grid_line")
    /\ call.axis = "along_y"
    /\ call.robot_pos.x = -300
    /\ ret.value.world = -1000
    /\ ret.value.grid_idx = -5
    /\ ret.value.is_major
    /\ Len(ret.value.segments) >= 1

---------------------------------------------------------------------------
\* Colours (C26).

\* the four colours, by (is wall, is dynamic)
Palette(is_wall, is_dynamic) ==
    IF is_wall
    THEN (IF is_dynamic THEN <<100, 150, 255>> ELSE <<200, 200, 210>>)
    ELSE (IF is_dynamic THEN <<0, 180, 255>> ELSE <<60, 120, 255>>)

\* radius > 10 m, a missing radius being 0.5 m
IsWall(obs) == "radius" \in DOMAIN obs /\ obs.radius > WallRadius

\* C26: the base colour of every obstacle drawn, polygon or circle, is the
\* palette entry of the pair (radius > 10 m, is_dynamic) of its record in
\* initial_obstacles, whatever its key, position, vertices and the step.
C26_BaseColourFromWallAndDynamic ==
    FrameShown =>
        \A j \in 1..Len(drawn) :
            shapes[j].base_color = Palette(IsWall(drawn[j].obs_info),
                                           DynamicObstacle(drawn[j].obs_info))

\* The second frame of the episode of colours: all twelve obstacles are drawn,
\* circles and polygons in each of the four colours, the circle of exactly
\* 10 m (key 1) in the colour of a small static obstacle.
C26_Witness ==
    /\ frame_step = 1
    /\ Len(drawn) = 12
    /\ \A t \in {"circle", "polygon"} :
         \A w, d \in BOOLEAN :
            \E j \in 1..12 :
                /\ drawn[j].type = t
                /\ IsWall(drawn[j].obs_info) = w
                /\ DynamicObstacle(drawn[j].obs_info) = d
                /\ shapes[j].base_color = Palette(w, d)
    /\ \E j \in 1..12 :
         /\ drawn[j].key = 1
         /\ drawn[j].obs_info.radius = WallRadius
         /\ shapes[j].base_color = <<60, 120, 255>>

---------------------------------------------------------------------------
\* Tops above bottoms (C27).

\* C27: for a depth above 0.01 m, a horizon row of the image, a camera at or
\* above the ground and a height of 0 or more, the top row of a point is at or
\* above its ground row (top <= bottom), so a wall face or a cylinder has a
\* screen height of 0 or more.
C27_TopNotBelowGround ==
    Called("obstacle_rows") /\ RatLess(RatInt(DepthEps), call.z) =>
        /\ ret.top <= ret.bottom
        /\ ret.bottom - ret.top >= 0

\* A wall of 2.5 m seen 3 m away by the camera at 1.2 m in a 480-row frame with
\* the horizon at row 266: its foot is at row 362, its top at row 162.
C27_Witness ==
    /\ Called("obstacle_rows")
    /\ call.z = RatInt(300)
    /\ call.height = WallHeight
    /\ call.camera_height = CameraHeight
    /\ call.image_height = ImageHeight
    /\ call.horizon_y = HorizonY(ImageHeight)
    /\ ret.top = 162
    /\ ret.bottom = 362

---------------------------------------------------------------------------
\* Background fill (C28).

Rows(image_height) == 0..(image_height - 1)

TimesPainted(painted, row, image_height) ==
    Cardinality({ i \in 1..Len(painted) : RowIndexed(painted[i].y, image_height) = row })

BandOf(row, horizon_y) == IF row < horizon_y THEN "sky" ELSE "ground"

\* C28: for every field of view and image height the renderer is constructed
\* with, the background fill indexes rows of 0 .. height - 1 only, does not
\* raise, and paints every row exactly once: a row above the horizon row
\* int(height / 2 + height * 5 / fov) as sky, a row at or below it as ground.
C28_BackgroundPaintsEachRowOnce ==
    Called("background_fill") =>
        /\ ~ret.value.raised
        /\ \A i \in 1..Len(ret.value.painted) :
               /\ ret.value.painted[i].y \in Rows(call.image_height)
               /\ ret.value.painted[i].band
                      = BandOf(ret.value.painted[i].y, ret.value.horizon_y)
        /\ \A row \in Rows(call.image_height) :
               TimesPainted(ret.value.painted, row, call.image_height) = 1

---------------------------------------------------------------------------
\* No encoder (C29).

\* no writer opens: not in the codec loop, not the baseline writer
NoEncoder ==
    /\ \A i \in 1..Len(Codecs) : env.codecs[i] # "opened"
    /\ env.baseline = "closed"

\* the steps below n with an index divisible by 10, in order
StillSteps(n) == [i \in 1..((n + StillEvery - 1) \div StillEvery) |-> StillEvery * (i - 1)]

\* C29: when no encoder opens, the baseline mp4v writer included, the video
\* routine goes through all N steps without raising, writes no frame
\* (frames_written = 0), saves a still at exactly the steps whose index is
\* divisible by 10, and reports no video file when the output file does not
\* exist.
C29_NoEncoderStillRendersAndSavesStills ==
    NoEncoder /\ WriterSetUp /\ FileTrajectory # <<>> =>
        /\ error = "none" /\ pc # "failed"
        /\ ~IsOpened(out)
        /\ frames_written = 0
        /\ FrameSteps("write") = <<>>
        /\ FrameSteps("render") = UpTo(step_idx)
        /\ FrameSteps("imwrite") = StillSteps(step_idx)
        /\ step_idx <= Len(FileTrajectory)
        /\ VideoReturned =>
             /\ step_idx = Len(FileTrajectory)
             /\ ~env.file.exists =>
                  /\ Logged(Call("print", "error: no video file"))
                  /\ ~Logged(Call("save", "gif")) => video_file = "None"

\* 21 steps without any encoder: all rendered, none written, stills of the
\* steps 0, 10 and 20, and no video file reported.
C29_Witness ==
    /\ NoEncoder
    /\ pc = "done"
    /\ Len(FileTrajectory) = LongSteps
    /\ ~env.file.exists
    /\ Len(FrameSteps("render")) = LongSteps
    /\ frames_written = 0
    /\ FrameSteps("imwrite") = <<0, 10, 20>>
    /\ result.video_file = "None"

---------------------------------------------------------------------------
\* Obstacles without a usable vertices field (C30).

\* the number of (x, y) points two coordinate lists give
PointsOf(vertices) == Min(Len(vertices[1]), Len(vertices[2]))

\* the vertices field is missing, is not two coordinate lists, or has fewer
\* than 3 points
NoUsableVertices(obs) ==
    \/ ~HasVertices(obs)
    \/ Len(obs.vertices) # 2
    \/ PointsOf(obs.vertices) < 3

\* the position of the j-th obstacle of the file at the step of the frame
CurrentPosition(j) ==
    LET traj == FileTrajs[j].traj
    IN  IF DynamicObstacle(FileObstacles[j]) /\ frame_step < Len(traj)
        THEN <<traj[frame_step + 1].x, traj[frame_step + 1].y>>
        ELSE FileObstacles[j].initial_center

\* p went through the circle branch: no vertex array and no edge was made of
\* it, it stands at its current position, and it is in the render list, as a
\* circle with its radius (0.5 m when it has none), exactly when the circular
\* visibility test lets it in
HandledAsCircle(p, j) ==
    /\ p.type = "circle"
    /\ p.vertices = <<>> /\ p.edges = <<>>
    /\ p.center = CurrentPosition(j)
    /\ ExpectedInView(p) <=> \E i \in 1..Len(collected) : collected[i].key = p.key
    /\ \A i \in 1..Len(collected) :
           collected[i].key = p.key =>
               /\ collected[i].type = "circle"
               /\ collected[i].radius = Get(p.obs_info, "radius", DefaultRadius)

\* C30: an obstacle whose vertices field is missing, is not exactly two
\* coordinate lists, or has fewer than 3 points is handled as a circle centred
\* at its current position with its radius (0.5 m by default) under the
\* circular visibility test, and never enters the polygon clipper.
C30_UnusableVerticesHandledAsCircle ==
    FrameShown /\ episode_file = VerticesEpisode =>
        \A j \in 1..Len(placed) :
            NoUsableVertices(placed[j].obs_info) => HandledAsCircle(placed[j], j)

=============================================================================
